---- MODULE Spec2Model ----
(***************************************************************************)
(* Verification model of the puzzle solvers of abestel/aoc22.              *)
(*                                                                         *)
(*   day 12  Topology::parse (nom grammar over characters) and walk, the   *)
(*           predicate-parameterised breadth-first search                  *)
(*   day 7   read_input (the directory tree and its cursor), total_size,   *)
(*           all_dirs and run_challenge2                                   *)
(*   day 11  run_loop (the monkeys' rounds) with its modulo reduction      *)
(*   day 9   Grid::move_head (the rope)                                    *)
(*   day 10  run_loop (the cycle machine and its crt)                      *)
(*   day 5   Stacks::accept and Stacks::accept_v2 (the crane)              *)
(*                                                                         *)
(* Every day is an independent program, so every day has specifications of *)
(* its own (SpecParse, SpecWalk, SpecDescent; SpecTree, SpecSpace;         *)
(* SpecMonkeys, SpecRouting, SpecUnchecked; SpecRope, SpecKnots;           *)
(* SpecCycle, SpecCrt; SpecCrane); the variables of the other days stay at *)
(* their idle values.                                                      *)
(***************************************************************************)
EXTENDS Integers, Sequences, FiniteSets, TLC

VARIABLES
    \* day 12, Topology::parse
    content,        \* the input text, a sequence of characters
    parsed,         \* Pending, or the Result Topology::parse returned
    \* day 12, walk
    topology,       \* the Topology walk was called with
    filters,        \* its start_filter, neighbour_filter and termination
    start,          \* Option<Pos> returned by topology.find(start_filter)
    visited,        \* HashMap<Pos, Pos>: position -> predecessor
    current,        \* positions of the frontier the for loop has yet to take
    new_current,    \* the next frontier
    walkPc,         \* "call", "loop" or "done"
    walkResult,     \* Pending, or the Result walk returned
    frontiers,      \* history: the positions inserted into each frontier, the
                    \* first being {start} and the last the one being filled
    \* day 7, read_input
    nodes,          \* the Nodes allocated so far; a NodeHandle is an index, root is 1
    node,           \* the cursor `node` of read_input
    line,           \* the Line the loop body ran last
    inserted,       \* whether that line ran an or_insert_with closure
    linesRead,      \* how many lines the loop has taken
    removed_dir_size,   \* Pending, or how run_challenge2 ended
    \* day 11, run_loop
    monkeys,            \* Vec<Monkey>, monkey k at index k + 1
    iterations,         \* run_loop's argument
    worry_level_divider,\* run_loop's argument
    round,              \* the rounds completed
    m,                  \* the monkey whose turn it is
    held,               \* what is left of `items`, the clone the turn iterates
    thrown,             \* the last throw: who threw which dequeued item to whom,
                        \* in which round, when the item had been thrown, and
                        \* the argument and the result of operation.apply
    loopPc,             \* "turn" (before a turn), "items" (inside one) or "done"
    reference,          \* the same monkeys' items and counters when the
                        \* `item %= divisor_product` step is left out
    refHeld,            \* `held` of that reference run
    thrownAt,           \* history: for every queued item, the round it was
                        \* thrown in and the monkey that threw it
    heldThrownAt,       \* the same for the items of `held`
    answer,             \* Pending, or what run_challenge1 / run_challenge2
                        \* returned, or Panicked
    starting_items,     \* history: how many starting items read_input parsed
    \* day 9, Grid::move_head
    knots,          \* Grid.knots, knot i at index i + 1
    tail_pos,       \* the positions of the last knot run_challenge has inserted
    moves,          \* how many times move_head was called
    diffs,          \* the differences the last call of move_head computed
    ropePc,         \* "idle", "moving", or "panicked" after the panic! branch
    \* day 10, run_loop
    commands,       \* VecDeque<Command>, what is left of it
    program,        \* the commands run_loop was called with
    machine,        \* Machine: register, and crt as the set of its true pixels
    current_action, \* Action: AwaitCommand or Defer(command, cycles)
    cycle,          \* the cycle the next loop iteration draws and measures
    strength,       \* the sum of the measured signal strengths
    cyclePc,        \* "idle", "loop", "returned" or "panicked"
    cycleResult,    \* Pending, what run_loop returned, or the index that panicked
    \* day 5, run_challenge1 / run_challenge2
    stacks,         \* Stacks.stacks: Vec<Vec<char>>, stack n at index n
    version,        \* "accept" (run_challenge1) or "accept_v2" (run_challenge2)
    crane_action,   \* the CraneAction the loop applied last
    stacks_before,  \* the Stacks that action was applied to
    applied,        \* how many actions the loop has taken
    cranePc,        \* "idle", "loop", "failed" (the ? returned) or "panicked"
    craneResult     \* Pending, or the Result of the last accept / accept_v2

parseVars == <<content, parsed>>
walkVars == <<topology, filters, start, visited, current, new_current, walkPc, walkResult,
              frontiers>>
treeVars == <<nodes, node, line, inserted, linesRead, removed_dir_size>>
monkeyVars == <<monkeys, iterations, worry_level_divider, round, m, held, thrown,
                loopPc, reference, refHeld, thrownAt, heldThrownAt, answer,
                starting_items>>
ropeVars == <<knots, tail_pos, moves, diffs, ropePc>>
cycleVars == <<commands, program, machine, current_action, cycle, strength, cyclePc,
               cycleResult>>
craneVars == <<stacks, version, crane_action, stacks_before, applied, cranePc, craneResult>>
vars == <<parseVars, walkVars, treeVars, monkeyVars, ropeVars, cycleVars, craneVars>>

(***************************************************************************)
(* Bounds of the model.                                                    *)
(***************************************************************************)
MaxContentLen == 5
MaxCells == 4
MaxLines == 4
MaxRounds == 2
MaxRefItem == 40000
MaxMoves == 12
MaxKnots == 4
MaxCommands == 5
MaxPadding == 2
MaxActions == 2

(***************************************************************************)
(* Generic helpers.                                                        *)
(***************************************************************************)
SeqsUpTo(S, n) == UNION {[1..k -> S] : k \in 0..n}

Range(s) == {s[k] : k \in DOMAIN s}

Min(S) == CHOOSE lo \in S : \A o \in S : lo <= o

Pending == [tag |-> "Pending"]
Idle == [tag |-> "Idle"]

(***************************************************************************)
(* Day 12: cells.                                                          *)
(***************************************************************************)
Letters == <<"a", "b", "c", "d", "e", "f", "g", "h", "i", "j", "k", "l", "m",
             "n", "o", "p", "q", "r", "s", "t", "u", "v", "w", "x", "y", "z">>

\* c as u8 - b'a' for a lower-case letter c
LetterIndex(c) == (CHOOSE k \in DOMAIN Letters : Letters[k] = c) - 1

MIN_HEIGHT == 0
MAX_HEIGHT == LetterIndex("z") - LetterIndex("a")

CellStart == [kind |-> "Start", h |-> 0]
CellEnd == [kind |-> "End", h |-> 0]
CellHeight(n) == [kind |-> "Height", h |-> n]

is_start(cell) == cell.kind = "Start"

is_end(cell) == cell.kind = "End"

height(cell) ==
    CASE cell.kind = "Start" -> MIN_HEIGHT
      [] cell.kind = "End" -> MAX_HEIGHT
      [] OTHER -> cell.h

(***************************************************************************)
(* Day 12: the nom parsers.  A parser maps the remaining input i to        *)
(* [ok |-> TRUE, rest, out] or to [ok |-> FALSE, code, input], the         *)
(* nom::error::Error it fails with.                                        *)
(***************************************************************************)
ParseOk(rest, out) == [ok |-> TRUE, rest |-> rest, out |-> out]
ParseErr(code, i) == [ok |-> FALSE, code |-> code, input |-> i]

\* alt((char('S'), char('E'), satisfy('a'..='z'))): the error of the last branch
CellParse(i) ==
    IF i = <<>> THEN ParseErr("Satisfy", i)
    ELSE IF Head(i) = "S" THEN ParseOk(Tail(i), CellStart)
    ELSE IF Head(i) = "E" THEN ParseOk(Tail(i), CellEnd)
    ELSE IF Head(i) \in Range(Letters)
         THEN ParseOk(Tail(i), CellHeight(LetterIndex(Head(i))))
    ELSE ParseErr("Satisfy", i)

\* the loop of many1 after its first element: stops at the first failure
RECURSIVE Many1Loop(_, _)
Many1Loop(i, acc) ==
    LET r == CellParse(i)
    IN  IF r.ok THEN Many1Loop(r.rest, Append(acc, r.out))
        ELSE ParseOk(i, acc)

\* many1(Cell::parse): at least one cell
Many1Cells(i) ==
    LET r == CellParse(i)
    IN  IF r.ok THEN Many1Loop(r.rest, <<r.out>>)
        ELSE r

\* complete::line_ending: "\n" or "\r\n"
LineEnding(i) ==
    IF Len(i) >= 1 /\ i[1] = "\n" THEN ParseOk(Tail(i), "\n")
    ELSE IF Len(i) >= 2 /\ i[1] = "\r" /\ i[2] = "\n" THEN ParseOk(Tail(Tail(i)), "\r\n")
    ELSE ParseErr("CrLf", i)

\* the loop of separated_list1 after its first element: a separator that is
\* not followed by an element is left unconsumed
RECURSIVE SeparatedLoop(_, _)
SeparatedLoop(i, res) ==
    LET s == LineEnding(i)
    IN  IF ~s.ok THEN ParseOk(i, res)
        ELSE LET r == Many1Cells(s.rest)
             IN  IF r.ok THEN SeparatedLoop(r.rest, Append(res, r.out))
                 ELSE ParseOk(i, res)

\* separated_list1(line_ending, many1(Cell::parse))
SeparatedList1(i) ==
    LET r == Many1Cells(i)
    IN  IF r.ok THEN SeparatedLoop(r.rest, <<r.out>>)
        ELSE r

\* all_consuming(...): fails with Eof when input is left
AllConsuming(i) ==
    LET r == SeparatedList1(i)
    IN  IF r.ok /\ r.rest # <<>> THEN ParseErr("Eof", r.rest) ELSE r

\* cells.iter().all(|line| line.len() == expected_colums)
AllLinesHaveLen(cells, expected_colums) ==
    \A k \in DOMAIN cells : Len(cells[k]) = expected_colums

ResultOk(v) == [tag |-> "Ok", value |-> v]
ResultErr(e) == [tag |-> "Err", error |-> e]

ErrorNom(code, i) == [variant |-> "Nom", code |-> code, input |-> i]
ErrorOf(name) == [variant |-> name, code |-> "", input |-> <<>>]

\* Topology::parse
TopologyParse(i) ==
    LET r == AllConsuming(i)
    IN  IF ~r.ok THEN ResultErr(ErrorNom(r.code, r.input))
        ELSE LET cells == r.out
             IN  IF cells = <<>> THEN ResultErr(ErrorOf("EmptyInput"))
                 ELSE LET rows == Len(cells)
                          expected_colums == Len(cells[1])
                      IN  IF AllLinesHaveLen(cells, expected_colums)
                          THEN ResultOk([cells |-> cells, rows |-> rows,
                                         columns |-> expected_colums])
                          ELSE ResultErr(ErrorOf("InvalidLineSize"))

(***************************************************************************)
(* Day 12: the topology and walk.  A Pos is [x, y], both zero-based; the   *)
(* rows and the cells of a row are sequences, so cell (x, y) is            *)
(* cells[y + 1][x + 1].                                                    *)
(***************************************************************************)
Pos(x, y) == [x |-> x, y |-> y]

\* a slip: a diagonal delta among the four
NEIGHBOURS_DELTAS_Diagonal == <<<<0, 1>>, <<0, -1>>, <<1, 0>>, <<-1, 0>>, <<1, 1>>>>

NEIGHBOURS_DELTAS == <<<<0, 1>>, <<0, -1>>, <<1, 0>>, <<-1, 0>>>>

\* Topology::at
At(t, pos) == t.cells[pos.y + 1][pos.x + 1]

Positions(t) == {Pos(x, y) : x \in 0..(t.columns - 1), y \in 0..(t.rows - 1)}

\* the predicates walk is called with, by name
ApplyCellFilter(name, cell) ==
    CASE name = "is_start" -> is_start(cell)
      [] name = "is_end" -> is_end(cell)
      [] OTHER -> FALSE

\* run_challenge1's closure |curr, neighbour| neighbour.height() <= curr.height() + 1
Challenge1Step(curr, neighbour) == height(neighbour) <= height(curr) + 1

\* a slip: `- 1` left out, no step down admitted
Challenge2Step_NoDescent(curr, neighbour) ==
    height(curr) = 0 \/ height(neighbour) >= height(curr)

\* run_challenge2's closure
\* |curr, neighbour| curr.height() == 0 || neighbour.height() >= curr.height() - 1
Challenge2Step(curr, neighbour) ==
    height(curr) = 0 \/ height(neighbour) >= height(curr) - 1

neighbour_filter(f, curr, neighbour) ==
    CASE f.neighbour_filter = "challenge1" -> Challenge1Step(curr, neighbour)
      [] f.neighbour_filter = "challenge2" -> Challenge2Step(curr, neighbour)
      [] OTHER -> FALSE

\* termination: Cell::is_end, or |c| c.height() == target (run_challenge2
\* passes target = Cell::MIN_HEIGHT)
termination(f, cell) ==
    CASE f.termination.kind = "is_end" -> is_end(cell)
      [] f.termination.kind = "height_is" -> height(cell) = f.termination.target
      [] OTHER -> FALSE

start_filter(f, cell) == ApplyCellFilter(f.start_filter, cell)

None == [some |-> FALSE, pos |-> Pos(0, 0)]
Some(pos) == [some |-> TRUE, pos |-> pos]

\* a slip: the columns scanned in the outer loop, the rows in the inner one
Find_ColumnMajor(t, f) ==
    LET hits == {p \in Positions(t) : start_filter(f, At(t, p))}
    IN  IF hits = {} THEN None
        ELSE Some(CHOOSE p \in hits :
                    \A q \in hits : p.x < q.x \/ (p.x = q.x /\ p.y <= q.y))

\* Topology::find: the first match in row order, then column order
Find(t, f) ==
    LET hits == {p \in Positions(t) : start_filter(f, At(t, p))}
    IN  IF hits = {} THEN None
        ELSE Some(CHOOSE p \in hits :
                    \A q \in hits : p.y < q.y \/ (p.y = q.y /\ p.x <= q.x))

\* Topology::neighbours: the in-bounds positions pos + delta, in the order of
\* NEIGHBOURS_DELTAS
RECURSIVE NeighboursFrom(_, _, _)
NeighboursFrom(t, pos, k) ==
    IF k > Len(NEIGHBOURS_DELTAS) THEN <<>>
    ELSE LET x == NEIGHBOURS_DELTAS[k][1] + pos.x
             y == NEIGHBOURS_DELTAS[k][2] + pos.y
             rest == NeighboursFrom(t, pos, k + 1)
         IN  IF 0 <= x /\ x < t.columns /\ 0 <= y /\ y < t.rows
             THEN <<Pos(x, y)>> \o rest
             ELSE rest

Neighbours(t, pos) == NeighboursFrom(t, pos, 1)

EmptyMap == [p \in {} |-> p]

MapInsert(map, k, v) == [p \in (DOMAIN map) \cup {k} |-> IF p = k THEN v ELSE map[p]]

\* a slip: `pos != start` left out
Admits_NoStartCheck(t, f, st, vis, curr_pos, pos) ==
    /\ pos \notin DOMAIN vis
    /\ neighbour_filter(f, At(t, curr_pos), At(t, pos))

\* the test of walk's inner loop: admit pos from curr_pos?
Admits(t, f, st, vis, curr_pos, pos) ==
    /\ pos # st
    /\ pos \notin DOMAIN vis
    /\ neighbour_filter(f, At(t, curr_pos), At(t, pos))

\* the inner for loop of walk over the neighbours ns of curr_pos, from the
\* state acc = [visited, new_current]
RECURSIVE VisitNeighbours(_, _, _, _, _, _)
VisitNeighbours(t, f, st, curr_pos, ns, acc) ==
    IF ns = <<>> THEN acc
    ELSE LET pos == Head(ns)
             next == IF Admits(t, f, st, acc.visited, curr_pos, pos)
                     THEN [visited |-> MapInsert(acc.visited, pos, curr_pos),
                           new_current |-> acc.new_current \cup {pos}]
                     ELSE acc
         IN  VisitNeighbours(t, f, st, curr_pos, Tail(ns), next)

Reverse(s) == [k \in 1..Len(s) |-> s[Len(s) + 1 - k]]

\* let mut path = vec![end]; while current != start { current = visited[&current]; push }
RECURSIVE PathBack(_, _, _)
PathBack(vis, st, path) ==
    LET last == path[Len(path)]
    IN  IF last = st THEN path
        ELSE PathBack(vis, st, Append(path, vis[last]))

BuildPath(vis, st, end) == Reverse(PathBack(vis, st, <<end>>))

Goals(t, f, S) == {p \in S : termination(f, At(t, p))}

(***************************************************************************)
(* Day 7: the tree of Nodes.  A NodeHandle (Rc<RefCell<Node>>) is the      *)
(* index of the Node in `nodes`; parent = 0 is None.  made_by records the  *)
(* constructor that built the Node (the Node itself does not keep it).     *)
(***************************************************************************)
Root == 1

\* Node::new_dir
new_dir(name, parent) ==
    [parent |-> parent, name |-> name, size |-> 0, children |-> EmptyMap,
     made_by |-> "new_dir"]

\* Node::new_file
new_file(name, size, parent) ==
    [parent |-> parent, name |-> name, size |-> size, children |-> EmptyMap,
     made_by |-> "new_file"]

\* Node::is_dir
is_dir(n) == n.size = 0

RECURSIVE SumOver(_, _)
SumOver(S, f) ==
    IF S = {} THEN 0
    ELSE LET x == CHOOSE x \in S : TRUE
         IN  f[x] + SumOver(S \ {x}, f)

ChildrenOf(ns, id) == {ns[id].children[k] : k \in DOMAIN ns[id].children}

\* a slip: the children's own sizes instead of their total sizes
total_size_Shallow(ns, id) ==
    ns[id].size + SumOver(ChildrenOf(ns, id),
                          [c \in ChildrenOf(ns, id) |-> ns[c].size])

\* Node::total_size
RECURSIVE total_size(_, _)
total_size(ns, id) ==
    ns[id].size + SumOver(ChildrenOf(ns, id),
                          [c \in ChildrenOf(ns, id) |-> total_size(ns, c)])

\* children.values().cloned().collect(): a HashMap (std RandomState) yields its
\* values in an order that changes with the hasher's seed, so the outcome is
\* any one of the orderings of the handles
InOrder(S) ==
    {s \in [1..Cardinality(S) -> S] : \A i, j \in 1..Cardinality(S) :
                                          s[i] = s[j] => i = j}

RECURSIVE Flatten(_)
Flatten(ss) == IF ss = <<>> THEN <<>> ELSE Head(ss) \o Flatten(Tail(ss))

RECURSIVE all_dirs(_, _)

\* .filter_map(..): for children in the given order, all_dirs of each child
\* that is_dir, each of them in any of the orders it can come out in
RECURSIVE SubDirs(_, _)
SubDirs(ns, children) ==
    IF children = <<>> THEN {<<>>}
    ELSE {<<h>> \o t : h \in (IF is_dir(ns[Head(children)])
                              THEN all_dirs(ns, Head(children))
                              ELSE {<<>>}),
                       t \in SubDirs(ns, Tail(children))}

\* all_dirs: the node, then all_dirs of each child that is_dir; the set of the
\* sequences the iterator can yield, one for each order of the children
all_dirs(ns, id) ==
    UNION {{<<id>> \o Flatten(subs) : subs \in SubDirs(ns, children)} :
              children \in InOrder(ChildrenOf(ns, id))}

\* a slip: children.insert(name, fresh) in place of entry(name).or_insert_with
OrInsertWith_Overwrite(ns, cur, name, fresh) ==
    LET id == Len(ns) + 1
    IN  [nodes |-> Append([ns EXCEPT ![cur].children =
                               MapInsert(ns[cur].children, name, id)], fresh),
         child |-> id, inserted |-> TRUE]

\* children.entry(name).or_insert_with(|| Rc::new(RefCell::new(fresh))) on the
\* Node cur: the child's handle, the nodes afterwards, and whether the closure ran
OrInsertWith(ns, cur, name, fresh) ==
    IF name \in DOMAIN ns[cur].children
    THEN [nodes |-> ns, child |-> ns[cur].children[name], inserted |-> FALSE]
    ELSE LET id == Len(ns) + 1
         IN  [nodes |-> Append([ns EXCEPT ![cur].children =
                                    MapInsert(ns[cur].children, name, id)], fresh),
              child |-> id, inserted |-> TRUE]

\* a slip: `..` handled like `/`
CdUpTarget_Root(ns, cur) == Root

\* node.borrow().parent.clone().unwrap_or_else(|| root.clone())
CdUpTarget(ns, cur) == IF ns[cur].parent # 0 THEN ns[cur].parent ELSE Root

\* Command::ChangeDirectory(name): the cursor and the nodes afterwards
ChangeDirectory(ns, cur, name) ==
    CASE name = "/" -> [nodes |-> ns, node |-> Root, inserted |-> FALSE]
      [] name = ".." -> [nodes |-> ns, node |-> CdUpTarget(ns, cur), inserted |-> FALSE]
      [] OTHER -> LET r == OrInsertWith(ns, cur, name, new_dir(name, cur))
                  IN  [nodes |-> r.nodes, node |-> r.child, inserted |-> r.inserted]

\* a slip: the entry arm assigns the child to the cursor, as the cd arm does
RecordEntry_Descend(ns, cur, entry) ==
    LET fresh == IF entry.kind = "dir" THEN new_dir(entry.name, cur)
                 ELSE new_file(entry.name, entry.size, cur)
        r == OrInsertWith(ns, cur, entry.name, fresh)
    IN  [nodes |-> r.nodes, node |-> r.child, inserted |-> r.inserted]

\* Line::Entry(entry): the entry is put under the cursor, which stays
RecordEntry(ns, cur, entry) ==
    LET fresh == IF entry.kind = "dir" THEN new_dir(entry.name, cur)
                 ELSE new_file(entry.name, entry.size, cur)
        r == OrInsertWith(ns, cur, entry.name, fresh)
    IN  [nodes |-> r.nodes, node |-> cur, inserted |-> r.inserted]

LineList == [kind |-> "ls", name |-> "", size |-> 0]
LineCd(name) == [kind |-> "cd", name |-> name, size |-> 0]
LineDir(name) == [kind |-> "dir", name |-> name, size |-> 0]
LineFile(size, name) == [kind |-> "file", name |-> name, size |-> size]
NoLine == [kind |-> "none", name |-> "", size |-> 0]

\* the body of read_input's loop for one parsed line
ProcessLine(ns, cur, ln) ==
    CASE ln.kind = "ls" -> [nodes |-> ns, node |-> cur, inserted |-> FALSE]
      [] ln.kind = "cd" -> ChangeDirectory(ns, cur, ln.name)
      [] OTHER -> RecordEntry(ns, cur, ln)

(***************************************************************************)
(* Day 11: operations, tests and one inspection of run_loop.               *)
(***************************************************************************)
VarOld == [var |-> "Old", num |-> 0]
VarNum(n) == [var |-> "Num", num |-> n]

\* Var::apply
VarApply(v, old) == IF v.var = "Old" THEN old ELSE v.num

OperationAdd(left, right) == [op |-> "Add", left |-> left, right |-> right]
OperationMul(left, right) == [op |-> "Mul", left |-> left, right |-> right]

\* Operation::apply
OperationApply(operation, old) ==
    IF operation.op = "Add"
    THEN VarApply(operation.left, old) + VarApply(operation.right, old)
    ELSE VarApply(operation.left, old) * VarApply(operation.right, old)

RECURSIVE ProductOver(_, _)
ProductOver(ms, k) ==
    IF k > Len(ms) THEN 1
    ELSE ms[k].test.divisible_by * ProductOver(ms, k + 1)

\* a slip: .sum::<u64>() in place of .product::<u64>()
RECURSIVE SumOfDivisors(_, _)
SumOfDivisors(ms, k) ==
    IF k > Len(ms) THEN 0
    ELSE ms[k].test.divisible_by + SumOfDivisors(ms, k + 1)

DivisorProduct_Sum(ms) == SumOfDivisors(ms, 1)

\* monkeys.iter().map(|m| m.test.divisible_by).product::<u64>()
DivisorProduct(ms) == ProductOver(ms, 1)

\* item = operation.apply(item); item /= worry_level_divider
NewWorry(mk, item, divider) == OperationApply(mk.operation, item) \div divider

\* if item % test.divisible_by == 0 { if_true_send_to } else { if_false_send_to }
SendTo(test, item) ==
    IF item % test.divisible_by = 0 THEN test.if_true_send_to
    ELSE test.if_false_send_to

\* a slip: `item %= divisor_product` left out
Inspect_NoReduction(mk, item, divider, product) ==
    LET new == NewWorry(mk, item, divider)
    IN  [item |-> new, to |-> SendTo(mk.test, new), reduced |-> item,
         applied |-> OperationApply(mk.operation, item)]

\* the body of `for mut item in items`: the new worry level and its receiver,
\* with the value passed to operation.apply and the value it returned
Inspect(mk, item, divider, product) ==
    LET new == NewWorry(mk, item % product, divider)
    IN  [item |-> new, to |-> SendTo(mk.test, new), reduced |-> item % product,
         applied |-> OperationApply(mk.operation, item % product)]

\* the same body without `item %= divisor_product`
InspectUnreduced(mk, item, divider) ==
    LET new == NewWorry(mk, item, divider)
    IN  [item |-> new, to |-> SendTo(mk.test, new)]

\* inspected.sort()
RECURSIVE InsertSorted(_, _)
InsertSorted(s, x) ==
    IF s = <<>> THEN <<x>>
    ELSE IF x <= Head(s) THEN <<x>> \o s
    ELSE <<Head(s)>> \o InsertSorted(Tail(s), x)

RECURSIVE Sort(_)
Sort(s) == IF s = <<>> THEN <<>> ELSE InsertSorted(Sort(Tail(s)), Head(s))

\* .take(n)
Take(s, n) == SubSeq(s, 1, IF n < Len(s) THEN n ELSE Len(s))

\* .product()
RECURSIVE Product(_)
Product(s) == IF s = <<>> THEN 1 ELSE Head(s) * Product(Tail(s))

Inspected(ms) == [k \in DOMAIN ms |-> ms[k].inspected]

\* a slip: .rev() left out, the two smallest counters multiplied
MonkeyBusiness_NoRev(ms) == Product(Take(Sort(Inspected(ms)), 2))

\* inspected.sort(); inspected.iter().rev().take(2).product()
MonkeyBusiness(ms) == Product(Take(Reverse(Sort(Inspected(ms))), 2))

\* a slip: the receiver's queue is replaced by the item thrown
Push_Replace(ms, to, item) == [ms EXCEPT ![to + 1].items = <<item>>]

\* monkeys[to].items.push(item)
Push(ms, to, item) == [ms EXCEPT ![to + 1].items = Append(@, item)]

\* the items of all the queues
RECURSIVE ItemCountFrom(_, _)
ItemCountFrom(ms, k) ==
    IF k > Len(ms) THEN 0 ELSE Len(ms[k].items) + ItemCountFrom(ms, k + 1)

ItemCount(ms) == ItemCountFrom(ms, 1)

\* the body of `for mut item in items` panics: `item %= divisor_product` and
\* `item % test.divisible_by` on a remainder by zero, `monkeys[..]` on an index
\* that is not below monkeys.len()
InspectAborts(ms, mk, item, divider, product) ==
    IF product = 0 THEN TRUE
    ELSE IF mk.test.divisible_by = 0 THEN TRUE
    ELSE SendTo(mk.test, NewWorry(mk, item % product, divider)) >= Len(ms)

\* an item of the input text was thrown by no monkey
NoMonkey == 0 - 1
StartingItem == [round |-> 0, by |-> NoMonkey]

NoThrow ==
    [some |-> FALSE, by |-> 0, item |-> 0, to |-> 0, refItem |-> 0, refTo |-> 0,
     round |-> 0, thrownAt |-> StartingItem, reduced |-> 0, applied |-> 0]

\* a slip: a turn that takes only the items the monkey held when the round
\* began and leaves those thrown to it since in its queue
TakeTurn_RoundStart(items, at, r) ==
    LET old == {k \in DOMAIN items : at[k].round < r \/ at[k].by = NoMonkey}
        Pick(q, keep) == [k \in 1..Cardinality(keep) |->
                            q[CHOOSE j \in keep : Cardinality({i \in keep : i < j}) = k - 1]]
    IN  [taken |-> Pick(items, old), takenAt |-> Pick(at, old),
         left |-> Pick(items, DOMAIN items \ old),
         leftAt |-> Pick(at, DOMAIN items \ old)]

\* let Monkey { items, .. } = monkeys[m].clone(); monkeys[m].items.clear():
\* the turn takes every item of the queue, whenever it was thrown
TakeTurn(items, at, r) ==
    [taken |-> items, takenAt |-> at, left |-> <<>>, leftAt |-> <<>>]

(***************************************************************************)
(* Day 9: the rope.  A Pos is [x, y] with signed coordinates.              *)
(***************************************************************************)
Directions == {"Up", "Down", "Left", "Right"}

\* Direction::as_pos
as_pos(direction) ==
    CASE direction = "Up" -> Pos(0, 1)
      [] direction = "Down" -> Pos(0, -1)
      [] direction = "Left" -> Pos(-1, 0)
      [] direction = "Right" -> Pos(1, 0)

\* impl Add for Pos, impl Sub for Pos
PosAdd(a, b) == Pos(a.x + b.x, a.y + b.y)
PosSub(a, b) == Pos(a.x - b.x, a.y - b.y)

Moved(p) == [panic |-> FALSE, delta |-> p]
UnhandledDelta == [panic |-> TRUE, delta |-> Pos(0, 0)]

\* a slip: the four arms without (2, 2), (2, -2), (-2, 2), (-2, -2)
DeltaTail_NoCorners(diff) ==
    LET d == <<diff.x, diff.y>>
    IN  CASE d \in {<<0, 0>>, <<0, -1>>, <<0, 1>>, <<-1, 0>>, <<1, 0>>,
                    <<-1, 1>>, <<-1, -1>>, <<1, -1>>, <<1, 1>>} -> Moved(Pos(0, 0))
          [] d = <<0, 2>> -> Moved(Pos(0, 1))
          [] d = <<0, -2>> -> Moved(Pos(0, -1))
          [] d = <<2, 0>> -> Moved(Pos(1, 0))
          [] d = <<-2, 0>> -> Moved(Pos(-1, 0))
          [] d \in {<<2, 1>>, <<1, 2>>} -> Moved(Pos(1, 1))
          [] d \in {<<2, -1>>, <<1, -2>>} -> Moved(Pos(1, -1))
          [] d \in {<<-2, 1>>, <<-1, 2>>} -> Moved(Pos(-1, 1))
          [] d \in {<<-2, -1>>, <<-1, -2>>} -> Moved(Pos(-1, -1))
          [] OTHER -> UnhandledDelta

\* a slip: the arm (0, 2) leaves the knot where it is
DeltaTail_LazyUp(diff) ==
    LET d == <<diff.x, diff.y>>
    IN  CASE d \in {<<0, 0>>, <<0, -1>>, <<0, 1>>, <<-1, 0>>, <<1, 0>>,
                    <<-1, 1>>, <<-1, -1>>, <<1, -1>>, <<1, 1>>, <<0, 2>>} -> Moved(Pos(0, 0))
          [] d = <<0, -2>> -> Moved(Pos(0, -1))
          [] d = <<2, 0>> -> Moved(Pos(1, 0))
          [] d = <<-2, 0>> -> Moved(Pos(-1, 0))
          [] d \in {<<2, 1>>, <<1, 2>>, <<2, 2>>} -> Moved(Pos(1, 1))
          [] d \in {<<2, -1>>, <<1, -2>>, <<2, -2>>} -> Moved(Pos(1, -1))
          [] d \in {<<-2, 1>>, <<-1, 2>>, <<-2, 2>>} -> Moved(Pos(-1, 1))
          [] d \in {<<-2, -1>>, <<-1, -2>>, <<-2, -2>>} -> Moved(Pos(-1, -1))
          [] OTHER -> UnhandledDelta

\* the match of move_head on (diff.x, diff.y), arm by arm; `_` is the panic!
DeltaTail(diff) ==
    LET d == <<diff.x, diff.y>>
    IN  CASE d \in {<<0, 0>>, <<0, -1>>, <<0, 1>>, <<-1, 0>>, <<1, 0>>,
                    <<-1, 1>>, <<-1, -1>>, <<1, -1>>, <<1, 1>>} -> Moved(Pos(0, 0))
          [] d = <<0, 2>> -> Moved(Pos(0, 1))
          [] d = <<0, -2>> -> Moved(Pos(0, -1))
          [] d = <<2, 0>> -> Moved(Pos(1, 0))
          [] d = <<-2, 0>> -> Moved(Pos(-1, 0))
          [] d \in {<<2, 1>>, <<1, 2>>, <<2, 2>>} -> Moved(Pos(1, 1))
          [] d \in {<<2, -1>>, <<1, -2>>, <<2, -2>>} -> Moved(Pos(1, -1))
          [] d \in {<<-2, 1>>, <<-1, 2>>, <<-2, 2>>} -> Moved(Pos(-1, 1))
          [] d \in {<<-2, -1>>, <<-1, -2>>, <<-2, -2>>} -> Moved(Pos(-1, -1))
          [] OTHER -> UnhandledDelta

\* `for i in 1..self.knots.len()` from knot i on (knot i is ks[i + 1]); the
\* loop ends at the panic!
RECURSIVE FollowFrom(_, _, _)
FollowFrom(ks, i, seen) ==
    IF i >= Len(ks) THEN [knots |-> ks, diffs |-> seen, panic |-> FALSE]
    ELSE LET diff == PosSub(ks[i], ks[i + 1])
             delta_tail == DeltaTail(diff)
         IN  IF delta_tail.panic
             THEN [knots |-> ks, diffs |-> Append(seen, diff), panic |-> TRUE]
             ELSE FollowFrom([ks EXCEPT ![i + 1] = PosAdd(@, delta_tail.delta)],
                             i + 1, Append(seen, diff))

\* Grid::move_head; without a knot, self.knots[0] panics
move_head(ks, direction) ==
    IF ks = <<>> THEN [knots |-> ks, diffs |-> <<>>, panic |-> TRUE]
    ELSE FollowFrom([ks EXCEPT ![1] = PosAdd(@, as_pos(direction))], 1, <<>>)

\* Grid::new
GridNew(n) == [k \in 1..n |-> Pos(0, 0)]

(***************************************************************************)
(* The idle values of each program's variables, held while another         *)
(* program runs.                                                           *)
(***************************************************************************)
IdleParse == content = <<>> /\ parsed = Idle

IdleTree ==
    /\ nodes = <<>> /\ node = 0 /\ line = NoLine /\ inserted = FALSE /\ linesRead = 0
    /\ removed_dir_size = Idle

IdleMonkeys ==
    /\ monkeys = <<>> /\ iterations = 0 /\ worry_level_divider = 0
    /\ round = 0 /\ m = 0 /\ held = <<>> /\ thrown = NoThrow
    /\ loopPc = "idle" /\ reference = <<>> /\ refHeld = <<>>
    /\ thrownAt = <<>> /\ heldThrownAt = <<>> /\ answer = Idle /\ starting_items = 0

IdleRope ==
    /\ knots = <<>> /\ tail_pos = {} /\ moves = 0 /\ diffs = <<>> /\ ropePc = "idle"

IdleCycle ==
    /\ commands = <<>> /\ program = <<>> /\ machine = Idle /\ current_action = Idle
    /\ cycle = 0 /\ strength = 0 /\ cyclePc = "idle" /\ cycleResult = Idle

IdleCrane ==
    /\ stacks = <<>> /\ version = "idle" /\ crane_action = Idle /\ stacks_before = <<>>
    /\ applied = 0 /\ cranePc = "idle" /\ craneResult = Idle

IdleWalk ==
    /\ topology = [cells |-> <<>>, rows |-> 0, columns |-> 0]
    /\ filters = Idle /\ start = None
    /\ visited = EmptyMap /\ current = {} /\ new_current = {}
    /\ walkPc = "idle" /\ walkResult = Idle /\ frontiers = <<>>

(***************************************************************************)
(* Day 12, the parser run on every short text over ContentChars.           *)
(***************************************************************************)
ContentChars == {"S", "E", "c", "\n", "\r", "#"}

InitParse ==
    /\ content \in SeqsUpTo(ContentChars, MaxContentLen)
    /\ parsed = Pending
    /\ IdleWalk /\ IdleTree /\ IdleMonkeys /\ IdleRope /\ IdleCycle /\ IdleCrane

Parse ==
    /\ parsed.tag = "Pending"
    /\ parsed' = TopologyParse(content)
    /\ UNCHANGED <<content, walkVars, treeVars, monkeyVars, ropeVars, cycleVars, craneVars>>

NextParse == Parse

SpecParse == InitParse /\ [][NextParse]_vars

(***************************************************************************)
(* Day 12, walk run on every small grid and every choice of predicates.    *)
(* The frontier sets are HashSets: the for loop takes their positions in   *)
(* any order, and find picks any of the goal cells.                        *)
(***************************************************************************)
CellChoices == {CellStart, CellEnd, CellHeight(0), CellHeight(1), CellHeight(2)}

Grids ==
    UNION {{[cells |-> c, rows |-> r, columns |-> k] :
                c \in [1..r -> [1..k -> CellChoices]]} :
           <<r, k>> \in {rk \in (1..MaxCells) \X (1..MaxCells) : rk[1] * rk[2] <= MaxCells}}

TerminationChoices ==
    {[kind |-> "is_end", target |-> 0],
     [kind |-> "height_is", target |-> MIN_HEIGHT],
     [kind |-> "height_is", target |-> 2]}

FilterChoices ==
    [start_filter : {"is_start", "is_end"},
     neighbour_filter : {"challenge1", "challenge2"},
     termination : TerminationChoices]

InitWalk ==
    /\ topology \in Grids
    /\ filters \in FilterChoices
    /\ start = None
    /\ visited = EmptyMap /\ current = {} /\ new_current = {}
    /\ walkPc = "call" /\ walkResult = Pending /\ frontiers = <<>>
    /\ IdleParse /\ IdleTree /\ IdleMonkeys /\ IdleRope /\ IdleCycle /\ IdleCrane

\* let start = topology.find(start_filter); no start: Err(NoStartFound)
WalkCall ==
    /\ walkPc = "call"
    /\ start' = Find(topology, filters)
    /\ IF start'.some
       THEN /\ current' = {start'.pos}
            /\ frontiers' = <<{start'.pos}, {}>>
            /\ walkPc' = "loop"
            /\ UNCHANGED walkResult
       ELSE /\ current' = {}
            /\ frontiers' = <<>>
            /\ walkPc' = "done"
            /\ walkResult' = ResultErr(ErrorOf("NoStartFound"))
    /\ UNCHANGED <<topology, filters, visited, new_current, parseVars, treeVars, monkeyVars,
                   ropeVars, cycleVars, craneVars>>

\* a slip: the positions found join the frontier the for loop is taking
WalkExpand_Chain ==
    /\ walkPc = "loop"
    /\ \E curr_pos \in current :
          LET acc == VisitNeighbours(topology, filters, start.pos, curr_pos,
                                     Neighbours(topology, curr_pos),
                                     [visited |-> visited, new_current |-> new_current])
          IN  /\ visited' = acc.visited
              /\ new_current' = acc.new_current
              /\ frontiers' = [frontiers EXCEPT ![Len(frontiers)] = acc.new_current]
              /\ current' = (current \ {curr_pos}) \cup (acc.new_current \ new_current)
    /\ UNCHANGED <<topology, filters, start, walkPc, walkResult, parseVars, treeVars, monkeyVars,
                   ropeVars, cycleVars, craneVars>>

\* one iteration of `for curr_pos in current`
WalkExpand ==
    /\ walkPc = "loop"
    /\ \E curr_pos \in current :
          LET acc == VisitNeighbours(topology, filters, start.pos, curr_pos,
                                     Neighbours(topology, curr_pos),
                                     [visited |-> visited, new_current |-> new_current])
          IN  /\ visited' = acc.visited
              /\ new_current' = acc.new_current
              /\ frontiers' = [frontiers EXCEPT ![Len(frontiers)] = acc.new_current]
              /\ current' = current \ {curr_pos}
    /\ UNCHANGED <<topology, filters, start, walkPc, walkResult, parseVars, treeVars, monkeyVars,
                   ropeVars, cycleVars, craneVars>>

\* new_current.iter().find(termination) is Some(end): return Ok(path)
WalkFound ==
    /\ walkPc = "loop" /\ current = {}
    /\ \E end \in Goals(topology, filters, new_current) :
          walkResult' = ResultOk(BuildPath(visited, start.pos, end))
    /\ walkPc' = "done"
    /\ UNCHANGED <<topology, filters, start, visited, current, new_current, frontiers,
                   parseVars, treeVars, monkeyVars,
                   ropeVars, cycleVars, craneVars>>

\* no goal in new_current and new_current.is_empty(): break, Err(NoPathFound)
WalkBreak ==
    /\ walkPc = "loop" /\ current = {}
    /\ Goals(topology, filters, new_current) = {}
    /\ new_current = {}
    /\ walkResult' = ResultErr(ErrorOf("NoPathFound"))
    /\ walkPc' = "done"
    /\ UNCHANGED <<topology, filters, start, visited, current, new_current, frontiers,
                   parseVars, treeVars, monkeyVars,
                   ropeVars, cycleVars, craneVars>>

\* no goal in new_current: current = new_current, and the next iteration of
\* the loop starts with an empty new_current
WalkAdvance ==
    /\ walkPc = "loop" /\ current = {}
    /\ Goals(topology, filters, new_current) = {}
    /\ new_current # {}
    /\ current' = new_current
    /\ new_current' = {}
    /\ frontiers' = Append(frontiers, {})
    /\ UNCHANGED <<topology, filters, start, visited, walkPc, walkResult, parseVars, treeVars, monkeyVars,
                   ropeVars, cycleVars, craneVars>>

NextWalk == WalkCall \/ WalkExpand \/ WalkFound \/ WalkBreak \/ WalkAdvance

SpecWalk == InitWalk /\ [][NextWalk]_vars

(***************************************************************************)
(* Day 12, run_challenge2: walk from E down to a cell of height 0.  E has  *)
(* the height of 'z', so a descent takes at least 25 steps; the grids here *)
(* have a row of staircases y, x, .., b, a on both sides of E (plain, with  *)
(* a plateau, with a missing level, or ending in S) and, or not, a second  *)
(* row two levels lower that may hold a way around the missing level.      *)
(***************************************************************************)
\* y, x, .., b, a
Staircase == [k \in 1..MAX_HEIGHT |-> CellHeight(MAX_HEIGHT - k)]

Summit == CellHeight(MAX_HEIGHT)

ArmPlain == Staircase \o <<Summit>>

\* the level at place k twice
ArmPlateau(k) ==
    SubSeq(Staircase, 1, k) \o <<Staircase[k]>> \o SubSeq(Staircase, k + 1, MAX_HEIGHT)

\* the level at place k missing
ArmGap(k) ==
    SubSeq(Staircase, 1, k - 1) \o SubSeq(Staircase, k + 1, MAX_HEIGHT)
        \o <<Summit, Summit>>

\* the staircase ending in S in place of a
ArmStart == SubSeq(Staircase, 1, MAX_HEIGHT - 1) \o <<CellStart, Summit>>

ArmChoices == {ArmPlain, ArmPlateau(1), ArmPlateau(13), ArmGap(13), ArmStart}

\* the lower row under an arm: every cell two levels below the cell above
\* it (or of height 0), so that no step leads down to it except at the low end
LowerWall(arm) ==
    [j \in DOMAIN arm |->
        CellHeight(IF height(arm[j]) >= 2 THEN height(arm[j]) - 2 ELSE MIN_HEIGHT)]

\* the same with the levels of places k - 1 and k, a way around the gap of ArmGap(k)
LowerBridge(arm, k) ==
    [j \in DOMAIN arm |-> IF j \in {k - 1, k} THEN Staircase[j] ELSE LowerWall(arm)[j]]

LowerArmChoices(arm) == {LowerWall(arm), LowerBridge(arm, 13)}

RowOf(left, centre, right) == Reverse(left) \o <<centre>> \o right

DescentGrids ==
    {[cells |-> <<RowOf(l, CellEnd, r)>>, rows |-> 1, columns |-> Len(l) + 1 + Len(r)] :
        l \in ArmChoices, r \in ArmChoices}
    \cup
    UNION {{[cells |-> <<RowOf(l, CellEnd, r), RowOf(ll, CellHeight(MIN_HEIGHT), lr)>>,
             rows |-> 2, columns |-> Len(l) + 1 + Len(r)] :
                ll \in LowerArmChoices(l), lr \in LowerArmChoices(r)} :
           l \in ArmChoices, r \in ArmChoices}

\* the predicates run_challenge2 passes to walk
RunChallenge2Filters ==
    [start_filter |-> "is_end",
     neighbour_filter |-> "challenge2",
     termination |-> [kind |-> "height_is", target |-> MIN_HEIGHT]]

InitDescent ==
    /\ topology \in DescentGrids
    /\ filters = RunChallenge2Filters
    /\ start = None
    /\ visited = EmptyMap /\ current = {} /\ new_current = {}
    /\ walkPc = "call" /\ walkResult = Pending /\ frontiers = <<>>
    /\ IdleParse /\ IdleTree /\ IdleMonkeys /\ IdleRope /\ IdleCycle /\ IdleCrane

SpecDescent == InitDescent /\ [][NextWalk]_vars

(***************************************************************************)
(* Day 7, read_input run on every transcript of at most MaxLines lines     *)
(* over a few names and sizes.                                             *)
(***************************************************************************)
NameChoices == {"a", "b"}
SizeChoices == {0, 2, 3}

DirEntries == {LineDir(n) : n \in NameChoices}
FileEntries == {LineFile(sz, n) : sz \in SizeChoices, n \in NameChoices}

InitTree ==
    /\ nodes = <<new_dir("/", 0)>>
    /\ node = Root
    /\ line = NoLine /\ inserted = FALSE /\ linesRead = 0
    /\ removed_dir_size = Pending
    /\ IdleParse /\ IdleWalk /\ IdleMonkeys /\ IdleRope /\ IdleCycle /\ IdleCrane

\* one turn of `for line in BufReader::new(file).lines()` on the parsed line ln
ReadLine(ln) ==
    /\ removed_dir_size = Pending
    /\ UNCHANGED removed_dir_size
    /\ LET r == ProcessLine(nodes, node, ln)
       IN  /\ nodes' = r.nodes
           /\ node' = r.node
           /\ inserted' = r.inserted
    /\ line' = ln
    /\ linesRead' = linesRead + 1
    /\ UNCHANGED <<parseVars, walkVars, monkeyVars, ropeVars, cycleVars, craneVars>>

\* `$ ls`
ReadList ==
    /\ linesRead < MaxLines
    /\ ReadLine(LineList)

\* `$ cd /`
ReadCdRoot ==
    /\ linesRead < MaxLines
    /\ ReadLine(LineCd("/"))

\* `$ cd ..`
ReadCdUp ==
    /\ linesRead < MaxLines
    /\ ReadLine(LineCd(".."))

\* `$ cd <name>`
ReadCdInto ==
    /\ linesRead < MaxLines
    /\ \E n \in NameChoices : ReadLine(LineCd(n))

\* `dir <name>`
ReadEntryDir ==
    /\ linesRead < MaxLines
    /\ \E ln \in DirEntries : ReadLine(ln)

\* `<size> <name>`
ReadEntryFile ==
    /\ linesRead < MaxLines
    /\ \E ln \in FileEntries : ReadLine(ln)

NextTree ==
    ReadList \/ ReadCdRoot \/ ReadCdUp \/ ReadCdInto \/ ReadEntryDir \/ ReadEntryFile

SpecTree == InitTree /\ [][NextTree]_vars

(***************************************************************************)
(* Day 7, run_challenge2: read_input on a transcript that may also list    *)
(* files of 40,000,000, then the size of the directory to remove.  A u64   *)
(* subtraction that underflows panics in a build with overflow checks and  *)
(* wraps modulo 2^64 in a build without; both builds are modelled.  The    *)
(* wrapped values are kept as the negative integers they are congruent to: *)
(* a negative threshold stands for a u64 above every size of the model.    *)
(***************************************************************************)
BigSizeChoices == {40000000}

BigFileEntries == {LineFile(sz, n) : sz \in BigSizeChoices, n \in NameChoices}

\* `<size> <name>` with a size of tens of millions
ReadEntryBigFile ==
    /\ linesRead < MaxLines
    /\ \E ln \in BigFileEntries : ReadLine(ln)

total_space == 70000000

needed_free_space == 30000000

Panicked == [tag |-> "Panic"]

Builds == {"overflow-checks", "wrapping"}

\* .map(|d| d.borrow().total_size()): the sizes that come out, whatever the
\* order all_dirs yields the directories in
DirSizes(ns) ==
    {total_size(ns, d) : d \in UNION {Range(dirs) : dirs \in all_dirs(ns, Root)}}

\* .filter(|&s| s >= minimum_space_to_free).min().ok_or(Error::NoDirectoryFound),
\* with a negative minimum_space_to_free standing for one wrapped above every size
LeastAtLeast(sizes, minimum_space_to_free) ==
    LET kept == IF minimum_space_to_free < 0 THEN {}
                ELSE {sz \in sizes : sz >= minimum_space_to_free}
    IN  IF kept = {} THEN ResultErr(ErrorOf("NoDirectoryFound"))
        ELSE ResultOk(Min(kept))

\* the body of run_challenge2 after read_input, in the given build
RemovedDirSize(ns, build) ==
    LET used_space == total_size(ns, Root)
        free_space == total_space - used_space
        minimum_space_to_free == needed_free_space - free_space
    IN  IF build = "overflow-checks" /\ (used_space > total_space
                                          \/ free_space > needed_free_space)
        THEN Panicked
        ELSE LeastAtLeast(DirSizes(ns), minimum_space_to_free)

\* the input ends here: run_challenge2 computes and returns
SpaceReturn ==
    /\ removed_dir_size = Pending
    /\ \E build \in Builds : removed_dir_size' = RemovedDirSize(nodes, build)
    /\ UNCHANGED <<nodes, node, line, inserted, linesRead, parseVars, walkVars,
                   monkeyVars, ropeVars, cycleVars, craneVars>>

NextSpace == NextTree \/ ReadEntryBigFile \/ SpaceReturn

SpecSpace == InitTree /\ [][NextSpace]_vars

(***************************************************************************)
(* Day 11, run_loop for MaxRounds rounds on three monkeys, as read_input   *)
(* returns them (sorted by index, every monkey with a starting item), with *)
(* both dividers the challenges use.  Beside it runs the reference: the    *)
(* same loop without the modulo reduction, on unbounded integers.          *)
(***************************************************************************)
MonkeyIds == {0, 1, 2}

OperationChoices ==
    {OperationAdd(VarOld, VarNum(3)), OperationMul(VarOld, VarNum(7)),
     OperationMul(VarOld, VarOld)}

DivisorChoices == {2, 5}

ItemChoices == {<<4>>, <<10, 23>>}

\* run_loop(20, 3, monkeys) and run_loop(10_000, 1, monkeys); the model runs
\* the first MaxRounds of these rounds
RunChallenge1 == [iterations |-> 20, worry_level_divider |-> 3]
RunChallenge2 == [iterations |-> 10000, worry_level_divider |-> 1]

DividerChoices == {RunChallenge1.worry_level_divider, RunChallenge2.worry_level_divider}

\* the tests of monkey k: it throws to the two other monkeys, in either order
TestChoices(k) ==
    {[divisible_by |-> d, if_true_send_to |-> t, if_false_send_to |-> f] :
        d \in DivisorChoices,
        t \in MonkeyIds \ {k},
        f \in MonkeyIds \ {k}} \cap
    {tst \in [divisible_by : DivisorChoices, if_true_send_to : MonkeyIds,
              if_false_send_to : MonkeyIds] :
        tst.if_true_send_to # tst.if_false_send_to}

MonkeyChoices(k) ==
    {[inspected |-> 0, index |-> k, items |-> its, operation |-> o, test |-> tst] :
        its \in ItemChoices, o \in OperationChoices, tst \in TestChoices(k)}

RefOf(ms) == [k \in DOMAIN ms |-> [items |-> ms[k].items, inspected |-> ms[k].inspected]]

InitMonkeys ==
    /\ monkeys \in {<<a, b, c>> : a \in MonkeyChoices(0), b \in MonkeyChoices(1),
                                  c \in MonkeyChoices(2)}
    /\ \E call \in {RunChallenge1, RunChallenge2} :
          /\ iterations = Min({call.iterations, MaxRounds})
          /\ worry_level_divider = call.worry_level_divider
    /\ round = 0 /\ m = 0 /\ held = <<>> /\ thrown = NoThrow
    /\ loopPc = "turn"
    /\ reference = RefOf(monkeys)
    /\ refHeld = <<>>
    /\ thrownAt = [k \in DOMAIN monkeys |->
                     [j \in DOMAIN monkeys[k].items |-> StartingItem]]
    /\ heldThrownAt = <<>>
    /\ answer = Pending
    /\ starting_items = ItemCount(monkeys)
    /\ IdleParse /\ IdleWalk /\ IdleTree /\ IdleRope /\ IdleCycle /\ IdleCrane

\* a turn starts: clone the monkey, count its items, clear its queue
TurnBegin ==
    /\ loopPc = "turn"
    /\ round < iterations
    /\ LET turn == TakeTurn(monkeys[m + 1].items, thrownAt[m + 1], round)
       IN  /\ held' = turn.taken
           /\ heldThrownAt' = turn.takenAt
           /\ monkeys' = [monkeys EXCEPT
                             ![m + 1].inspected = @ + Len(monkeys[m + 1].items),
                             ![m + 1].items = turn.left]
           /\ thrownAt' = [thrownAt EXCEPT ![m + 1] = turn.leftAt]
    /\ refHeld' = reference[m + 1].items
    /\ reference' = [reference EXCEPT ![m + 1].inspected = @ + Len(reference[m + 1].items),
                                      ![m + 1].items = <<>>]
    /\ loopPc' = "items"
    /\ UNCHANGED <<iterations, worry_level_divider, round, m, thrown, answer, starting_items,
                   parseVars, walkVars, treeVars, ropeVars, cycleVars, craneVars>>

\* one iteration of `for mut item in items.iter().cloned()`
InspectItem ==
    /\ loopPc = "items"
    /\ held # <<>>
    /\ ~InspectAborts(monkeys, monkeys[m + 1], Head(held), worry_level_divider,
                      DivisorProduct(monkeys))
    /\ refHeld # <<>> => Head(refHeld) <= MaxRefItem
    /\ LET got == Inspect(monkeys[m + 1], Head(held), worry_level_divider,
                          DivisorProduct(monkeys))
           ref == IF refHeld # <<>>
                  THEN InspectUnreduced(monkeys[m + 1], Head(refHeld), worry_level_divider)
                  ELSE [item |-> 0, to |-> m]
       IN  /\ monkeys' = Push(monkeys, got.to, got.item)
           /\ reference' = IF refHeld # <<>> THEN Push(reference, ref.to, ref.item)
                           ELSE reference
           /\ thrown' = [some |-> TRUE, by |-> m, item |-> Head(held), to |-> got.to,
                         refItem |-> IF refHeld # <<>> THEN Head(refHeld) ELSE 0,
                         refTo |-> ref.to,
                         round |-> round, thrownAt |-> Head(heldThrownAt),
                         reduced |-> got.reduced, applied |-> got.applied]
           /\ thrownAt' = [thrownAt EXCEPT
                             ![got.to + 1] = Append(@, [round |-> round, by |-> m])]
    /\ held' = Tail(held)
    /\ heldThrownAt' = Tail(heldThrownAt)
    /\ refHeld' = IF refHeld # <<>> THEN Tail(refHeld) ELSE refHeld
    /\ UNCHANGED <<iterations, worry_level_divider, round, m, loopPc, answer, starting_items,
                   parseVars, walkVars, treeVars, ropeVars, cycleVars, craneVars>>

\* the turn is over: the next monkey, or the next round, or the end of the loop
TurnEnd ==
    /\ loopPc = "items"
    /\ held = <<>>
    /\ IF m + 1 < Len(monkeys)
       THEN /\ m' = m + 1
            /\ round' = round
            /\ loopPc' = "turn"
       ELSE /\ m' = 0
            /\ round' = round + 1
            /\ loopPc' = IF round + 1 < iterations THEN "turn" ELSE "done"
    /\ UNCHANGED <<monkeys, iterations, worry_level_divider, held, thrown, reference,
                   refHeld, thrownAt, heldThrownAt, answer, starting_items, parseVars, walkVars,
                   treeVars, ropeVars, cycleVars, craneVars>>

\* run_challenge1 / run_challenge2 after run_loop: Ok(the product of the
\* first two of the inspected counters sorted and reversed)
Return ==
    /\ loopPc = "done"
    /\ answer' = ResultOk(MonkeyBusiness(monkeys))
    /\ loopPc' = "returned"
    /\ UNCHANGED <<monkeys, iterations, worry_level_divider, round, m, held, thrown,
                   reference, refHeld, thrownAt, heldThrownAt, starting_items, parseVars, walkVars,
                   treeVars, ropeVars, cycleVars, craneVars>>

NextMonkeys == TurnBegin \/ InspectItem \/ TurnEnd \/ Return

SpecMonkeys == InitMonkeys /\ [][NextMonkeys]_vars

(***************************************************************************)
(* Day 11, run_loop on the monkeys of every text read_input accepts:       *)
(* Test::parse takes any two numbers as targets, so monkey 0 is given      *)
(* every pair of targets among the monkeys, itself included.               *)
(***************************************************************************)
AnyTargetTests ==
    [divisible_by : DivisorChoices, if_true_send_to : MonkeyIds,
     if_false_send_to : MonkeyIds]

AnyTargetMonkeys ==
    {[inspected |-> 0, index |-> 0, items |-> its,
      operation |-> OperationAdd(VarOld, VarNum(3)), test |-> tst] :
        its \in ItemChoices, tst \in AnyTargetTests}

AddingMonkeys(k) ==
    {mk \in MonkeyChoices(k) :
        mk.operation = OperationAdd(VarOld, VarNum(3)) /\ mk.test.divisible_by = 2}

InitRouting ==
    /\ monkeys \in {<<a, b, c>> : a \in AnyTargetMonkeys, b \in AddingMonkeys(1),
                                  c \in AddingMonkeys(2)}
    /\ \E call \in {RunChallenge1, RunChallenge2} :
          /\ iterations = Min({call.iterations, MaxRounds})
          /\ worry_level_divider = call.worry_level_divider
    /\ round = 0 /\ m = 0 /\ held = <<>> /\ thrown = NoThrow
    /\ loopPc = "turn"
    /\ reference = RefOf(monkeys)
    /\ refHeld = <<>>
    /\ thrownAt = [k \in DOMAIN monkeys |->
                     [j \in DOMAIN monkeys[k].items |-> StartingItem]]
    /\ heldThrownAt = <<>>
    /\ answer = Pending
    /\ starting_items = ItemCount(monkeys)
    /\ IdleParse /\ IdleWalk /\ IdleTree /\ IdleRope /\ IdleCycle /\ IdleCrane

SpecRouting == InitRouting /\ [][NextMonkeys]_vars

(***************************************************************************)
(* Day 11, the claims about the modulo reduction.                          *)
(***************************************************************************)
\* C2: with worry_level_divider = 1, every item is thrown to the monkey that
\* receives it in the reference run without the reduction, so at every point
\* of the loop each monkey holds as many items and has inspected as many items
\* as in the reference run.
C2_SameReceiversAsReference ==
    worry_level_divider = 1 =>
        /\ thrown.some => thrown.to = thrown.refTo
        /\ Len(held) = Len(refHeld)
        /\ \A k \in DOMAIN monkeys :
              /\ monkeys[k].inspected = reference[k].inspected
              /\ Len(monkeys[k].items) = Len(reference[k].items)

\* in the second round a worry level that the reduction changed was inspected
C2_Witness ==
    /\ worry_level_divider = 1
    /\ round >= 1
    /\ thrown.some
    /\ thrown.refItem >= DivisorProduct(monkeys)
    /\ thrown.refItem # thrown.item % DivisorProduct(monkeys)
    /\ monkeys[thrown.by + 1].inspected >= 3

\* C3: with worry_level_divider = 3, for every item value v a monkey dequeues,
\* the receiver computed from v mod P (reduce, apply the operation, divide by 3,
\* test divisibility) is the receiver computed from v without the reduction.
C3_ReductionKeepsReceiverWithDivider3 ==
    (worry_level_divider = 3 /\ thrown.some) =>
        Inspect(monkeys[thrown.by + 1], thrown.item, 3,
                DivisorProduct(monkeys)).to
            = InspectUnreduced(monkeys[thrown.by + 1], thrown.item, 3).to

(***************************************************************************)
(* Day 9, run_challenge1 (2 knots) and run_challenge2 (10 knots) on every  *)
(* sequence of at most MaxMoves unit moves of the head.                    *)
(***************************************************************************)
GridSizes == {2, 10}

InitRope ==
    /\ \E grid_size \in GridSizes : knots = GridNew(grid_size)
    /\ tail_pos = {}
    /\ moves = 0 /\ diffs = <<>> /\ ropePc = "moving"
    /\ IdleParse /\ IdleWalk /\ IdleTree /\ IdleMonkeys /\ IdleCycle /\ IdleCrane

\* one turn of `for direction in ..`: grid.move_head(direction), then
\* tail_pos.insert(grid.knots[grid_size - 1])
MoveHead ==
    /\ ropePc = "moving"
    /\ moves < MaxMoves
    /\ \E direction \in Directions :
          LET r == move_head(knots, direction)
          IN  /\ knots' = r.knots
              /\ diffs' = r.diffs
              /\ ropePc' = IF r.panic THEN "panicked" ELSE "moving"
              /\ tail_pos' = IF r.panic THEN tail_pos
                             ELSE tail_pos \cup {r.knots[Len(r.knots)]}
    /\ moves' = moves + 1
    /\ UNCHANGED <<parseVars, walkVars, treeVars, monkeyVars, cycleVars, craneVars>>

NextRope == MoveHead

SpecRope == InitRope /\ [][NextRope]_vars

(***************************************************************************)
(* Day 7, the claims about the tree.                                       *)
(***************************************************************************)
TreeBuilt == nodes # <<>>

EntryLists == UNION {[1..k -> DirEntries \cup FileEntries] : k \in 1..2}

RECURSIVE ProcessAll(_, _, _)
ProcessAll(ns, cur, lns) ==
    IF lns = <<>> THEN [nodes |-> ns, node |-> cur]
    ELSE LET r == ProcessLine(ns, cur, Head(lns))
         IN  ProcessAll(r.nodes, r.node, Tail(lns))

\* C4: in every tree read_input can reach, once a list of entry lines has been
\* processed under the cursor, processing the same lines again under the same
\* cursor changes nothing: no node appears, the cursor keeps its children, every
\* child keeps its size, and every total_size is as after the first listing.
C4_RelistingChangesNothing ==
    TreeBuilt =>
        \A lns \in EntryLists :
            \A once \in {ProcessAll(nodes, node, lns)} :
                \A twice \in {ProcessAll(once.nodes, once.node, lns)} :
                    /\ twice.node = once.node
                    /\ twice.nodes = once.nodes
                    /\ DOMAIN twice.nodes[twice.node].children
                          = DOMAIN once.nodes[once.node].children
                    /\ \A i \in DOMAIN once.nodes :
                          total_size(twice.nodes, i) = total_size(once.nodes, i)

\* the loop has just read a file entry that the cursor already held
C4_Witness ==
    /\ TreeBuilt
    /\ line.kind = "file" /\ line.size > 0
    /\ ~inserted
    /\ line.name \in DOMAIN nodes[node].children
    /\ nodes[nodes[node].children[line.name]].made_by = "new_file"
    /\ nodes[nodes[node].children[line.name]].size = line.size

\* the node whose children map holds id (0 when there is none)
HolderOf(ns, id) ==
    IF \E p \in DOMAIN ns : id \in ChildrenOf(ns, p)
    THEN CHOOSE p \in DOMAIN ns : id \in ChildrenOf(ns, p)
    ELSE 0

LineRead(ln) == linesRead' = linesRead + 1 /\ line' = ln

\* C5: `$ cd ..` moves the cursor to the node that holds the old cursor as a
\* child, and leaves it at the root when the old cursor is the root; the tree
\* is not changed.
C5_CdUpGoesToParent ==
    [][LineRead(LineCd("..")) =>
          /\ node' = (IF node = Root THEN Root ELSE HolderOf(nodes, node))
          /\ nodes' = nodes]_vars

\* `$ cd ..` has just moved the cursor from depth two to a directory below the root
C5_Witness ==
    /\ TreeBuilt
    /\ line = LineCd("..")
    /\ node # Root
    /\ nodes[node].parent = Root
    /\ nodes[node].children # EmptyMap

\* C6: `$ ls`, `dir <name>` and `<size> <name>` leave the cursor where it is;
\* `$ ls` changes nothing, and an entry line changes no existing node except
\* that the cursor's children map may gain the one name of the entry, bound to
\* the one new node.
C6_EntryLinesKeepCursor ==
    [][(linesRead' = linesRead + 1 /\ line'.kind \in {"ls", "dir", "file"}) =>
          /\ node' = node
          /\ line'.kind = "ls" => nodes' = nodes
          /\ Len(nodes') \in {Len(nodes), Len(nodes) + 1}
          /\ \A i \in DOMAIN nodes : i # node => nodes'[i] = nodes[i]
          /\ nodes'[node] = [nodes[node] EXCEPT !.children = nodes'[node].children]
          /\ DOMAIN nodes[node].children \subseteq DOMAIN nodes'[node].children
          /\ DOMAIN nodes'[node].children
                \subseteq (DOMAIN nodes[node].children) \cup {line'.name}
          /\ \A k \in DOMAIN nodes[node].children :
                nodes'[node].children[k] = nodes[node].children[k]
          /\ Len(nodes') = Len(nodes) + 1 =>
                /\ line'.name \notin DOMAIN nodes[node].children
                /\ nodes'[node].children[line'.name] = Len(nodes')
                /\ nodes'[Len(nodes')].parent = node]_vars

\* a dir entry has just added a child to a cursor below the root
C6_Witness ==
    /\ TreeBuilt
    /\ line.kind = "dir"
    /\ inserted
    /\ node # Root
    /\ line.name \in DOMAIN nodes[node].children

FileNodes(ns) == {i \in DOMAIN ns : ns[i].made_by = "new_file"}

DirNodes(ns) == {i \in DOMAIN ns : ns[i].made_by = "new_dir"}

\* C7: total_size of a node is its own size plus the total_size of each of its
\* children, and total_size of the root is the sum of the sizes of the nodes
\* made from file entries, each counted once.
C7_TotalSizeSumsFiles ==
    TreeBuilt =>
        /\ \A i \in DOMAIN nodes :
              total_size(nodes, i) =
                  nodes[i].size + SumOver(ChildrenOf(nodes, i),
                                          [c \in ChildrenOf(nodes, i) |-> total_size(nodes, c)])
        /\ total_size(nodes, Root) =
              SumOver(FileNodes(nodes), [i \in FileNodes(nodes) |-> nodes[i].size])

\* a file directly under the root and a file two levels down
C7_Witness ==
    /\ TreeBuilt
    /\ \E i, j \in FileNodes(nodes) :
          /\ nodes[i].parent = Root /\ nodes[i].size > 0
          /\ nodes[j].parent # Root /\ nodes[j].size > 0
    /\ total_size(nodes, Root) = 5

NoDuplicates(s) == \A i, j \in DOMAIN s : s[i] = s[j] => i = j

\* C8: all_dirs(root) yields the root and every node made as a directory,
\* each exactly once, and no node made from a file entry.
C8_AllDirsYieldsTheDirectories ==
    TreeBuilt =>
        \A dirs \in all_dirs(nodes, Root) :
            /\ NoDuplicates(dirs)
            /\ Range(dirs) = DirNodes(nodes)

(***************************************************************************)
(* Day 12, shortest distances by definition: the positions a chain of at   *)
(* most k admissible steps reaches from the start.                         *)
(***************************************************************************)
Abs(n) == IF n < 0 THEN -n ELSE n

Adjacent(p, q) == Abs(p.x - q.x) + Abs(p.y - q.y) = 1

StepAllowed(t, f, p, q) == Adjacent(p, q) /\ neighbour_filter(f, At(t, p), At(t, q))

RECURSIVE ReachableWithin(_, _, _, _)
ReachableWithin(t, f, from, k) ==
    IF k = 0 THEN {from}
    ELSE LET R == ReachableWithin(t, f, from, k - 1)
         IN  R \cup {q \in Positions(t) : \E p \in R : StepAllowed(t, f, p, q)}

CellCount(t) == t.rows * t.columns

GoalReachable(t, f, from) == Goals(t, f, ReachableWithin(t, f, from, CellCount(t))) # {}

MinSteps(t, f, from) ==
    Min({k \in 0..CellCount(t) : Goals(t, f, ReachableWithin(t, f, from, k)) # {}})

\* C1: whenever a goal cell is reachable from the start cell, walk returns
\* Ok(path) and path.len() - 1 is the minimum number of admissible steps from
\* the start to a goal cell (0 when the start cell is itself a goal cell).
C1_WalkReturnsShortestPath ==
    (walkPc = "done" /\ start.some /\ GoalReachable(topology, filters, start.pos))
        => /\ walkResult.tag = "Ok"
           /\ Len(walkResult.value) - 1 = MinSteps(topology, filters, start.pos)

(***************************************************************************)
(* Day 12, the rows of a text by definition: the pieces between its line   *)
(* endings ("\n" or "\r\n").                                               *)
(***************************************************************************)
RECURSIVE SplitFrom(_, _)
SplitFrom(i, row) ==
    IF i = <<>> THEN <<row>>
    ELSE IF i[1] = "\n" THEN <<row>> \o SplitFrom(Tail(i), <<>>)
    ELSE IF Len(i) >= 2 /\ i[1] = "\r" /\ i[2] = "\n"
         THEN <<row>> \o SplitFrom(Tail(Tail(i)), <<>>)
    ELSE SplitFrom(Tail(i), Append(row, i[1]))

SplitLines(i) == SplitFrom(i, <<>>)

CellChars == {"S", "E"} \cup Range(Letters)

\* the rows of a text: its lines, a line ending after the last row being a
\* terminator and no row of its own
Rows(i) ==
    IF Len(SplitLines(i)) >= 2 /\ SplitLines(i)[Len(SplitLines(i))] = <<>>
    THEN SubSeq(SplitLines(i), 1, Len(SplitLines(i)) - 1)
    ELSE SplitLines(i)

\* one or more rows, each of one or more valid cell characters
RowsOfCells(i) ==
    \A k \in DOMAIN Rows(i) :
        /\ Rows(i)[k] # <<>>
        /\ Range(Rows(i)[k]) \subseteq CellChars

Ragged(i) ==
    /\ RowsOfCells(i)
    /\ \E k \in DOMAIN Rows(i) : Len(Rows(i)[k]) # Len(Rows(i)[1])

ParseReturned == parsed.tag \in {"Ok", "Err"}

\* C9: Topology::parse returns Error::EmptyInput for a text of zero rows, the
\* empty string.
C9_EmptyTextIsEmptyInput ==
    (ParseReturned /\ content = <<>>) => parsed = ResultErr(ErrorOf("EmptyInput"))

\* C10: Topology::parse returns Error::InvalidLineSize for every text made of
\* rows of valid cell characters whose lengths are not all equal, and on every
\* Ok result `rows` is the number of rows of the text and every row has exactly
\* `columns` cells.
C10_RaggedIsInvalidLineSize ==
    ParseReturned =>
        /\ Ragged(content) => parsed = ResultErr(ErrorOf("InvalidLineSize"))
        /\ parsed.tag = "Ok" =>
              /\ parsed.value.rows = Len(Rows(content))
              /\ Len(parsed.value.cells) = parsed.value.rows
              /\ \A k \in DOMAIN parsed.value.cells :
                    Len(parsed.value.cells[k]) = parsed.value.columns

\* C11: Topology::parse accepts a text with and without a final line
\* terminator and returns the same topology for both: whenever it returns Ok
\* for a text, it returns the same Ok for that text followed by "\n".
C11_FinalTerminatorIsOptional ==
    (ParseReturned /\ parsed.tag = "Ok")
        => TopologyParse(Append(content, "\n")) = parsed

(***************************************************************************)
(* Day 12, the claims about the start cell and the end of the search.      *)
(***************************************************************************)
StartCandidates(t, f) == {p \in Positions(t) : start_filter(f, At(t, p))}

\* the place of a position in the row-major scan of the grid
ScanIndex(t, p) == p.y * t.columns + p.x

\* C12: walk returns Error::NoStartFound if and only if no cell satisfies
\* start_filter; otherwise the search starts from the candidate that comes
\* first in row-major scan order, and the returned path begins there.
C12_StartIsFirstInScanOrder ==
    walkPc \in {"loop", "done"} =>
        /\ walkPc = "done" =>
              (walkResult = ResultErr(ErrorOf("NoStartFound"))
                  <=> StartCandidates(topology, filters) = {})
        /\ StartCandidates(topology, filters) # {} =>
              /\ start.some
              /\ start.pos \in StartCandidates(topology, filters)
              /\ \A q \in StartCandidates(topology, filters) :
                    ScanIndex(topology, start.pos) <= ScanIndex(topology, q)
              /\ walkResult.tag = "Ok" => walkResult.value[1] = start.pos

\* two candidates, the first in row order not the first in column order, and
\* a path was returned
C12_Witness ==
    /\ walkPc = "done"
    /\ walkResult.tag = "Ok"
    /\ Len(walkResult.value) >= 2
    /\ \E p, q \in StartCandidates(topology, filters) : p.y < q.y /\ q.x < p.x

\* C13: walk returns Error::NoPathFound exactly when no cell satisfying
\* termination is reachable from the start cell by admissible steps (the
\* start cell itself is reachable in zero steps).
C13_NoPathFoundIffNoGoalReachable ==
    (walkPc = "done" /\ start.some) =>
        (walkResult = ResultErr(ErrorOf("NoPathFound"))
            <=> ~GoalReachable(topology, filters, start.pos))

(***************************************************************************)
(* Day 12, ascents by definition: the number of steps of the shortest      *)
(* chain from a cell to a target in which every step goes to one of the    *)
(* four cells around and climbs at most one level.                         *)
(***************************************************************************)
Around(t, p) ==
    {q \in {[x |-> p.x + 1, y |-> p.y], [x |-> p.x - 1, y |-> p.y],
            [x |-> p.x, y |-> p.y + 1], [x |-> p.x, y |-> p.y - 1]} :
        q.x \in 0..(t.columns - 1) /\ q.y \in 0..(t.rows - 1)}

ClimbsAtMostOne(t, p, q) == height(At(t, q)) <= height(At(t, p)) + 1

\* the length of an ascent that does not exist
Unreachable == 0 - 1

\* seen: the cells within k steps; edge: those at exactly k steps
RECURSIVE AscentLayers(_, _, _, _, _)
AscentLayers(t, seen, edge, target, k) ==
    IF target \in edge THEN k
    ELSE IF edge = {} THEN Unreachable
    ELSE LET next == UNION {{q \in Around(t, p) : ClimbsAtMostOne(t, p, q)} : p \in edge}
                        \ seen
         IN  AscentLayers(t, seen \cup next, next, target, k + 1)

AscentLength(t, from, target) == AscentLayers(t, {from}, {from}, target, 0)

LowCells(t) == {c \in Positions(t) : height(At(t, c)) = MIN_HEIGHT}

AscentLengths(t, target) ==
    {AscentLength(t, c, target) : c \in LowCells(t)} \ {Unreachable}

AllCells == {CellStart, CellEnd} \cup {CellHeight(h) : h \in MIN_HEIGHT..MAX_HEIGHT}

\* C14: run_challenge2 returns a path whose length is the minimum, over the
\* cells of height 0, of the shortest ascent from that cell to E under the
\* rule neighbour.height <= current.height + 1 (NoPathFound when no such
\* ascent exists), and its step rule admits a step from a to b exactly when
\* that rule admits the step from b to a.
C14_DescentIsShortestAscent ==
    (walkPc = "done" /\ start.some) =>
        /\ AscentLengths(topology, start.pos) # {} =>
              /\ walkResult.tag = "Ok"
              /\ Len(walkResult.value) - 1 = Min(AscentLengths(topology, start.pos))
        /\ AscentLengths(topology, start.pos) = {} =>
              walkResult = ResultErr(ErrorOf("NoPathFound"))
        /\ \A a, b \in AllCells :
              neighbour_filter(filters, a, b) <=> Challenge1Step(b, a)

\* a descent of 26 steps that goes around a missing level through the lower
\* row and comes back up
C14_Witness ==
    /\ walkPc = "done"
    /\ filters = RunChallenge2Filters
    /\ walkResult.tag = "Ok"
    /\ Len(walkResult.value) - 1 = MAX_HEIGHT + 1
    /\ \E k \in DOMAIN walkResult.value : walkResult.value[k].y = 1
    /\ walkResult.value[Len(walkResult.value)].y = 0

(***************************************************************************)
(* Day 11, the claims about the loop.                                      *)
(***************************************************************************)
QueuedItems(ms) == SumOver(DOMAIN ms, [k \in DOMAIN ms |-> Len(ms[k].items)])

\* C15: every item a monkey inspects is appended to exactly one queue, that of
\* test.if_true_send_to when the new value is divisible by test.divisible_by
\* and that of test.if_false_send_to otherwise, and that queue is never the
\* inspecting monkey's own queue.
C15_ThrownToAnotherMonkey ==
    [][InspectItem =>
        LET mk == monkeys[m + 1]
            to == thrown'.to
            new == monkeys'[to + 1].items[Len(monkeys'[to + 1].items)]
        IN  /\ QueuedItems(monkeys') = QueuedItems(monkeys) + 1
            /\ Len(monkeys'[to + 1].items) = Len(monkeys[to + 1].items) + 1
            /\ new % mk.test.divisible_by = 0 => to = mk.test.if_true_send_to
            /\ new % mk.test.divisible_by # 0 => to = mk.test.if_false_send_to
            /\ to # mk.index]_vars

\* C16: an item thrown by monkey i to a monkey j > i is inspected by j in the
\* round it was thrown in; an item thrown to a monkey j < i is not inspected
\* in that round but in the next one.
C16_InspectedInTheSameRoundByLaterMonkeys ==
    (thrown.some /\ thrown.thrownAt.by # NoMonkey) =>
        /\ thrown.by > thrown.thrownAt.by => thrown.thrownAt.round = thrown.round
        /\ thrown.by < thrown.thrownAt.by => thrown.thrownAt.round = thrown.round - 1

\* monkey 2 has inspected an item that monkey 0 threw to it in the second
\* round, the round it is inspected in
C16_Witness ==
    /\ thrown.some
    /\ thrown.by = 2
    /\ thrown.thrownAt = [round |-> 1, by |-> 0]
    /\ thrown.round = 1

\* the largest product of the counters of two different monkeys
PairProducts(ms) ==
    {ms[ij[1]].inspected * ms[ij[2]].inspected :
        ij \in {pr \in (DOMAIN ms) \X (DOMAIN ms) : pr[1] # pr[2]}}

TopTwoProduct(ms) ==
    CHOOSE best \in PairProducts(ms) : \A other \in PairProducts(ms) : other <= best

\* C17: run_loop performs exactly `iterations` rounds, in each round the
\* monkeys take their turns in index order, a turn adds to the monkey's
\* inspected counter the number of items in its queue when the turn starts and
\* nothing else changes a counter, and run_challenge1 / run_challenge2 return
\* the product of the two largest inspected counters.
C17_RoundsTurnsAndMonkeyBusiness ==
    /\ [](loopPc = "returned" =>
            /\ round = iterations
            /\ answer = ResultOk(TopTwoProduct(monkeys)))
    /\ [][/\ (loopPc = "turn" /\ loopPc' = "items") =>
                \A k \in DOMAIN monkeys :
                    monkeys'[k].inspected =
                        monkeys[k].inspected
                            + (IF k = m + 1 THEN Len(monkeys[k].items) ELSE 0)
          /\ ~(loopPc = "turn" /\ loopPc' = "items") =>
                \A k \in DOMAIN monkeys : monkeys'[k].inspected = monkeys[k].inspected
          /\ (m' # m \/ round' # round) =>
                /\ loopPc = "items" /\ held = <<>>
                /\ IF m + 1 < Len(monkeys)
                   THEN m' = m + 1 /\ round' = round
                   ELSE m' = 0 /\ round' = round + 1
          /\ (loopPc = "turn" /\ loopPc' # loopPc) => (loopPc' = "items" /\ round < iterations)
          /\ loopPc' = "done" => round' = iterations]_vars

\* both rounds were run, the three counters differ, and the product returned
\* is that of the two largest
C17_Witness ==
    /\ loopPc = "returned"
    /\ round = MaxRounds
    /\ \A i, j \in DOMAIN monkeys : i # j => monkeys[i].inspected # monkeys[j].inspected
    /\ \A k \in DOMAIN monkeys : monkeys[k].inspected > 0
    /\ answer.value = TopTwoProduct(monkeys)

\* the product of the monkeys' divisible_by values
ModulusProduct(ms) == Product([k \in DOMAIN ms |-> ms[k].test.divisible_by])

\* the operation's value at P - 1
OperationCeiling(ms, by) == OperationApply(ms[by + 1].operation, ModulusProduct(ms) - 1)

\* C18: every value passed to operation.apply is strictly less than the
\* divisor product P, what operation.apply returns and every worry level
\* stored in a queue by a throw is at most the operation's value at P - 1 (at
\* most (P - 1)^2 for old * old), in every round.
C18_WorryLevelsStayBelowTheCeiling ==
    loopPc # "idle" =>
        /\ thrown.some =>
              /\ thrown.reduced < ModulusProduct(monkeys)
              /\ thrown.applied <= OperationCeiling(monkeys, thrown.by)
        /\ \A k \in DOMAIN monkeys : \A j \in DOMAIN monkeys[k].items :
              thrownAt[k][j].by # NoMonkey =>
                  /\ monkeys[k].items[j] <= OperationCeiling(monkeys, thrownAt[k][j].by)
                  /\ monkeys[k].items[j]
                        <= (ModulusProduct(monkeys) - 1) * (ModulusProduct(monkeys) - 1)

\* in the second round a monkey squared a worry level that a throw had stored
\* and that was not below P before the reduction
C18_Witness ==
    /\ thrown.some
    /\ thrown.round = 1
    /\ thrown.thrownAt.by # NoMonkey
    /\ thrown.item >= ModulusProduct(monkeys)
    /\ monkeys[thrown.by + 1].operation = OperationMul(VarOld, VarOld)
    /\ thrown.applied = thrown.reduced * thrown.reduced
    /\ thrown.reduced > 1

(***************************************************************************)
(* Day 7, the claim about run_challenge2.                                  *)
(***************************************************************************)
\* C19: run_challenge2 never aborts: for every tree read_input can build the
\* subtractions `total_space - used_space` and `needed_free_space - free_space`
\* do not underflow, and it returns Ok(the smallest directory total size that
\* is >= 30,000,000 - (70,000,000 - total_size(root))) or NoDirectoryFound.
C19_RunChallenge2NeverAborts ==
    removed_dir_size.tag \notin {"Pending", "Idle"} =>
        /\ removed_dir_size # Panicked
        /\ total_size(nodes, Root) <= 70000000
        /\ 70000000 - total_size(nodes, Root) <= 30000000
        /\ removed_dir_size \in
              {ResultErr(ErrorOf("NoDirectoryFound"))} \cup
              {ResultOk(sz) : sz \in
                  {d \in DirSizes(nodes) :
                      /\ d >= 30000000 - (70000000 - total_size(nodes, Root))
                      /\ \A e \in DirSizes(nodes) :
                            e >= 30000000 - (70000000 - total_size(nodes, Root))
                                => d <= e}}

(***************************************************************************)
(* Day 9, the claim about the adjacency table.                             *)
(***************************************************************************)
\* C20: whenever move_head computes the difference between a knot and its
\* predecessor, both components lie in -2..2, and the panic! branch for an
\* unhandled delta is never reached, with 2 knots and with 10.
C20_EveryDeltaIsHandled ==
    ropePc # "idle" =>
        /\ ropePc # "panicked"
        /\ \A k \in DOMAIN diffs : diffs[k].x \in -2..2 /\ diffs[k].y \in -2..2
        /\ moves > 0 => Len(diffs) = Len(knots) - 1

\* with 10 knots, a call of move_head met a difference of two cells on both
\* axes and moved the third knot or a later one diagonally
C20_Witness ==
    /\ ropePc = "moving"
    /\ Len(knots) = 10
    /\ \E k \in DOMAIN diffs : k >= 2 /\ diffs[k] \in {Pos(2, 2), Pos(-2, 2), Pos(2, -2), Pos(-2, -2)}
    /\ knots[4] # Pos(0, 0)

(***************************************************************************)
(* Day 10: the cycle machine.  A Command is NoOp or Addx(delta); an Action *)
(* is AwaitCommand or Defer(command, cycles).  The crt, [[bool; 40]; 6],   *)
(* is kept as the set of the pixels that are true.                         *)
(***************************************************************************)
NoOp == [tag |-> "NoOp"]
Addx(delta) == [tag |-> "Addx", delta |-> delta]

\* a slip: an addx that takes three cycles
cycles_AddxThree(command) == IF command.tag = "NoOp" THEN 1 ELSE 3

\* Command::cycles
cycles(command) == IF command.tag = "NoOp" THEN 1 ELSE 2

AwaitCommand == [tag |-> "AwaitCommand"]
Defer(command, n) == [tag |-> "Defer", command |-> command, cycles |-> n]

\* the dimensions of Machine.crt
CrtRows == 6
CrtColumns == 40

\* Machine::new
MachineNew == [register |-> 1, crt |-> {}]

\* Machine::is_lighten_pixel
is_lighten_pixel(mach, x) == mach.register - 1 <= x /\ x <= mach.register + 1

Pixel(row, column) == [row |-> row, column |-> column]

\* let x = (cycle - 1) % 40; if machine.is_lighten_pixel(x as i64)
\* { machine.crt[(cycle - 1) / 40][x] = true; }: indexing the array outside
\* its dimensions panics
Draw(mach, c) ==
    LET x == (c - 1) % 40
        row == (c - 1) \div 40
    IN  IF ~is_lighten_pixel(mach, x)
        THEN [panic |-> FALSE, machine |-> mach, row |-> row, x |-> x]
        ELSE IF row >= CrtRows \/ x >= CrtColumns
        THEN [panic |-> TRUE, machine |-> mach, row |-> row, x |-> x]
        ELSE [panic |-> FALSE, machine |-> [mach EXCEPT !.crt = @ \cup {Pixel(row, x)}],
              row |-> row, x |-> x]

\* if cycle == 20 || cycle > 20 && (cycle - 20) % 40 == 0
\* { strength += cycle as i64 * machine.register; }
Measure(str, c, mach) ==
    IF c = 20 \/ (c > 20 /\ (c - 20) % 40 = 0) THEN str + c * mach.register ELSE str

IndexOutOfBounds(row, x) == [tag |-> "Panic", row |-> row, x |-> x]

\* a loop iteration in Action::AwaitCommand with a command to pop; every
\* iteration ends at the panic when the crt index is out of bounds
TickAwait ==
    /\ cyclePc = "loop"
    /\ current_action.tag = "AwaitCommand"
    /\ commands # <<>>
    /\ LET d == Draw(machine, cycle)
           command == Head(commands)
       IN  IF d.panic
           THEN /\ cyclePc' = "panicked"
                /\ cycleResult' = IndexOutOfBounds(d.row, d.x)
                /\ UNCHANGED <<commands, machine, current_action, cycle, strength>>
           ELSE /\ machine' = d.machine
                /\ strength' = Measure(strength, cycle, machine)
                /\ commands' = Tail(commands)
                /\ current_action' = IF cycles(command) > 1
                                     THEN Defer(command, cycles(command) - 1)
                                     ELSE AwaitCommand
                /\ cycle' = cycle + 1
                /\ UNCHANGED <<cyclePc, cycleResult>>
    /\ UNCHANGED <<program, parseVars, walkVars, treeVars, monkeyVars, ropeVars, craneVars>>

\* a loop iteration in Action::Defer(command, cycles)
TickDefer ==
    /\ cyclePc = "loop"
    /\ current_action.tag = "Defer"
    /\ LET d == Draw(machine, cycle)
           command == current_action.command
       IN  IF d.panic
           THEN /\ cyclePc' = "panicked"
                /\ cycleResult' = IndexOutOfBounds(d.row, d.x)
                /\ UNCHANGED <<commands, machine, current_action, cycle, strength>>
           ELSE /\ strength' = Measure(strength, cycle, machine)
                /\ IF current_action.cycles = 1
                   THEN /\ machine' = IF command.tag = "Addx"
                                      THEN [d.machine EXCEPT !.register = @ + command.delta]
                                      ELSE d.machine
                        /\ current_action' = AwaitCommand
                   ELSE /\ machine' = d.machine
                        /\ current_action' = Defer(command, current_action.cycles - 1)
                /\ cycle' = cycle + 1
                /\ UNCHANGED <<commands, cyclePc, cycleResult>>
    /\ UNCHANGED <<program, parseVars, walkVars, treeVars, monkeyVars, ropeVars, craneVars>>

\* the loop iteration that finds no command left: break, Ok((strength, machine))
TickBreak ==
    /\ cyclePc = "loop"
    /\ current_action.tag = "AwaitCommand"
    /\ commands = <<>>
    /\ LET d == Draw(machine, cycle)
       IN  IF d.panic
           THEN /\ cyclePc' = "panicked"
                /\ cycleResult' = IndexOutOfBounds(d.row, d.x)
                /\ UNCHANGED <<commands, machine, current_action, cycle, strength>>
           ELSE /\ machine' = d.machine
                /\ strength' = Measure(strength, cycle, machine)
                /\ cyclePc' = "returned"
                /\ cycleResult' = ResultOk([strength |-> strength', machine |-> machine'])
                /\ UNCHANGED <<commands, current_action, cycle>>
    /\ UNCHANGED <<program, parseVars, walkVars, treeVars, monkeyVars, ropeVars, craneVars>>

NextCycle == TickAwait \/ TickDefer \/ TickBreak

(***************************************************************************)
(* Day 10, run_loop on every list of at most MaxCommands commands.         *)
(***************************************************************************)
CommandChoices == {NoOp, Addx(3), Addx(0 - 5)}

InitCycle ==
    /\ commands \in SeqsUpTo(CommandChoices, MaxCommands)
    /\ program = commands
    /\ machine = MachineNew
    /\ current_action = AwaitCommand
    /\ cycle = 1 /\ strength = 0
    /\ cyclePc = "loop" /\ cycleResult = Pending
    /\ IdleParse /\ IdleWalk /\ IdleTree /\ IdleMonkeys /\ IdleRope /\ IdleCrane

SpecCycle == InitCycle /\ [][NextCycle]_vars

(***************************************************************************)
(* Day 10, the claim about the cycles of a command.                        *)
(***************************************************************************)
Popped == Len(program) - Len(commands)

\* the cycles the claim gives a list of commands: 1 per noop, 2 per addx
CyclesTaken(cmds) ==
    Cardinality({k \in DOMAIN cmds : cmds[k].tag = "NoOp"})
        + 2 * Cardinality({k \in DOMAIN cmds : cmds[k].tag = "Addx"})

\* the sum of the deltas of a list of commands
RECURSIVE Added(_)
Added(cmds) ==
    IF cmds = <<>> THEN 0
    ELSE (IF Head(cmds).tag = "Addx" THEN Head(cmds).delta ELSE 0) + Added(Tail(cmds))

RegisterIsObservedBetweenCommands ==
    LET done == SubSeq(program, 1, Popped)
    IN  /\ cycle = 1 + CyclesTaken(done)
        /\ machine.register = MachineNew.register + Added(done)

RegisterIsObservedInsideAnAddx ==
    LET before == SubSeq(program, 1, Popped - 1)
    IN  /\ Popped >= 1
        /\ current_action = Defer(program[Popped], 1)
        /\ program[Popped].tag = "Addx"
        /\ cycle = 1 + CyclesTaken(before) + 1
        /\ machine.register = MachineNew.register + Added(before)

\* C21: every loop iteration of run_loop is one cycle; the action is
\* AwaitCommand at the first cycle of a command and Defer(addx, 1) at the
\* second cycle of an addx, a noop takes 1 cycle and an addx 2, the register a
\* cycle observes is 1 plus the deltas of the addx completed before it (so both
\* cycles of an addx observe the value before it and the cycle after observes
\* the new value), and the register changes only in the iteration that
\* completes an addx.
C21_CommandsTakeTheirCycles ==
    /\ [](cyclePc \in {"loop", "returned"} =>
            IF current_action.tag = "AwaitCommand"
            THEN RegisterIsObservedBetweenCommands
            ELSE RegisterIsObservedInsideAnAddx)
    /\ [][cyclePc = "loop" =>
            /\ cyclePc' = "loop" => cycle' = cycle + 1
            /\ machine'.register # machine.register =>
                  /\ current_action.tag = "Defer"
                  /\ current_action.command.tag = "Addx"
                  /\ current_action.cycles = 1
                  /\ current_action' = AwaitCommand
                  /\ machine'.register = machine.register + current_action.command.delta]_vars

\* the second cycle of an addx that follows an addx and a noop: the register
\* holds the first delta and not yet the second
C21_Witness ==
    /\ cyclePc = "loop"
    /\ current_action.tag = "Defer"
    /\ Popped = 3
    /\ program[1].tag = "Addx" /\ program[2].tag = "NoOp" /\ program[3].tag = "Addx"
    /\ program[3].delta # program[1].delta
    /\ cycle = 5
    /\ machine.register = 1 + program[1].delta

(***************************************************************************)
(* Day 10, run_loop on command lists that fill the crt: a few addx, then   *)
(* noops up to 240 cycles or up to MaxPadding cycles fewer.                *)
(***************************************************************************)
NoOps(n) == [k \in 1..n |-> NoOp]

RECURSIVE TotalCycles(_)
TotalCycles(cmds) ==
    IF cmds = <<>> THEN 0 ELSE cycles(Head(cmds)) + TotalCycles(Tail(cmds))

Prefixes == SeqsUpTo({Addx(0 - 2), Addx(37)}, 2)

FullScreenPrograms ==
    {prefix \o NoOps(CrtRows * CrtColumns - TotalCycles(prefix) - padding) :
        prefix \in Prefixes, padding \in 0..MaxPadding}

InitCrt ==
    /\ commands \in FullScreenPrograms
    /\ program = commands
    /\ machine = MachineNew
    /\ current_action = AwaitCommand
    /\ cycle = 1 /\ strength = 0
    /\ cyclePc = "loop" /\ cycleResult = Pending
    /\ IdleParse /\ IdleWalk /\ IdleTree /\ IdleMonkeys /\ IdleRope /\ IdleCrane

SpecCrt == InitCrt /\ [][NextCycle]_vars

(***************************************************************************)
(* Day 10, the claim about the crt.                                        *)
(***************************************************************************)
\* C26: for a command list of at most 240 cycles (1 per noop, 2 per addx),
\* run_loop never panics, and every pixel it has set is at a row below 6 and
\* a column below 40.
C26_CrtWritesStayInBounds ==
    (cyclePc # "idle" /\ CyclesTaken(program) <= 240) =>
        /\ cyclePc # "panicked"
        /\ \A pixel \in machine.crt : pixel.row < 6 /\ pixel.column < 40

(***************************************************************************)
(* Day 5: the crane.  Stacks.stacks is a sequence of stacks, stack n at    *)
(* index n, every stack a sequence of crates with its top at the end.      *)
(***************************************************************************)
Move(number_crates, from_stack, to_stack) ==
    [number_crates |-> number_crates, from_stack |-> from_stack, to_stack |-> to_stack]

InvalidStackReference(n, action) ==
    [variant |-> "InvalidStackReference", stack |-> n, action |-> action]
ImpossibleToApplyAction(stack, action) ==
    [variant |-> "ImpossibleToApplyAction", stack |-> stack, action |-> action]

\* to_move.iter().rev()
RECURSIVE Rev(_)
Rev(s) == IF s = <<>> THEN <<>> ELSE Append(Rev(Tail(s)), Head(s))

\* stacks[from_stack - 1].splice(from_index..to_index, vec![]), with
\* 0-based from_index and to_index
Splice(stack, from_index, to_index) ==
    SubSeq(stack, 1, from_index) \o SubSeq(stack, to_index + 1, Len(stack))

\* Stacks::accept_v2.  `from_stack - 1` and `to_stack - 1` are usize
\* subtractions followed by an index: with 0 they panic, on overflow or on
\* the index out of bounds
accept_v2(stks, action) ==
    IF action.from_stack > Len(stks)
    THEN ResultErr(InvalidStackReference(action.from_stack, action))
    ELSE IF action.to_stack > Len(stks)
    THEN ResultErr(InvalidStackReference(action.to_stack, action))
    ELSE IF action.from_stack = 0 THEN Panicked
    ELSE IF Len(stks[action.from_stack]) < action.number_crates
    THEN ResultErr(ImpossibleToApplyAction(stks[action.from_stack], action))
    ELSE LET from_index == Len(stks[action.from_stack]) - action.number_crates
             to_index == Len(stks[action.from_stack])
             to_move == SubSeq(stks[action.from_stack], from_index + 1, to_index)
         IN  IF to_move # <<>> /\ action.to_stack = 0 THEN Panicked
             ELSE LET added == IF to_move = <<>> THEN stks
                               ELSE [stks EXCEPT ![action.to_stack] = @ \o to_move]
                  IN  ResultOk([added EXCEPT ![action.from_stack] =
                                   Splice(@, from_index, to_index)])

\* a slip: accept without the .rev()
accept_NoRev(stks, action) == accept_v2(stks, action)

\* Stacks::accept
accept(stks, action) ==
    IF action.from_stack > Len(stks)
    THEN ResultErr(InvalidStackReference(action.from_stack, action))
    ELSE IF action.to_stack > Len(stks)
    THEN ResultErr(InvalidStackReference(action.to_stack, action))
    ELSE IF action.from_stack = 0 THEN Panicked
    ELSE IF Len(stks[action.from_stack]) < action.number_crates
    THEN ResultErr(ImpossibleToApplyAction(stks[action.from_stack], action))
    ELSE LET from_index == Len(stks[action.from_stack]) - action.number_crates
             to_index == Len(stks[action.from_stack])
             to_move == SubSeq(stks[action.from_stack], from_index + 1, to_index)
         IN  IF to_move # <<>> /\ action.to_stack = 0 THEN Panicked
             ELSE LET added == IF to_move = <<>> THEN stks
                               ELSE [stks EXCEPT ![action.to_stack] = @ \o Rev(to_move)]
                  IN  ResultOk([added EXCEPT ![action.from_stack] =
                                   Splice(@, from_index, to_index)])

\* stacks.stacks.iter().flat_map(|x| x.last()).cloned().collect()
RECURSIVE Tops(_)
Tops(stks) ==
    IF stks = <<>> THEN <<>>
    ELSE (IF Head(stks) = <<>> THEN <<>> ELSE <<Head(stks)[Len(Head(stks))]>>)
            \o Tops(Tail(stks))

(***************************************************************************)
(* Day 5, run_challenge1 and run_challenge2 on every small Stacks and      *)
(* every list of at most MaxActions actions `move N from A to B`.          *)
(***************************************************************************)
CrateChoices == {"A", "B"}

StackCounts == 0..3

\* a stack of the drawing: at most two crates
StackChoices == SeqsUpTo(CrateChoices, 2)

StacksChoices == UNION {[1..k -> StackChoices] : k \in StackCounts}

ActionChoices ==
    {Move(n, a, b) : n \in 0..3, a \in 0..4, b \in 0..4}

InitCrane ==
    /\ stacks \in StacksChoices
    /\ version \in {"accept", "accept_v2"}
    /\ crane_action = Pending
    /\ stacks_before = stacks
    /\ applied = 0
    /\ cranePc = "loop" /\ craneResult = Pending
    /\ IdleParse /\ IdleWalk /\ IdleTree /\ IdleMonkeys /\ IdleRope /\ IdleCycle

\* `stacks = ..?`: Ok is assigned and the loop goes on, Err is returned
PcAfter(result) ==
    CASE result.tag = "Ok" -> "loop"
      [] result.tag = "Err" -> "failed"
      [] OTHER -> "panicked"

\* one iteration of the loop of run_challenge1: stacks = stacks.accept(action)?
Accept ==
    /\ cranePc = "loop" /\ version = "accept"
    /\ applied < MaxActions
    /\ \E action \in ActionChoices :
          LET result == accept(stacks, action)
          IN  /\ crane_action' = action
              /\ craneResult' = result
              /\ stacks' = IF result.tag = "Ok" THEN result.value ELSE stacks
              /\ cranePc' = PcAfter(result)
    /\ stacks_before' = stacks
    /\ applied' = applied + 1
    /\ UNCHANGED <<version, parseVars, walkVars, treeVars, monkeyVars, ropeVars, cycleVars>>

\* one iteration of the loop of run_challenge2: stacks = stacks.accept_v2(action)?
AcceptV2 ==
    /\ cranePc = "loop" /\ version = "accept_v2"
    /\ applied < MaxActions
    /\ \E action \in ActionChoices :
          LET result == accept_v2(stacks, action)
          IN  /\ crane_action' = action
              /\ craneResult' = result
              /\ stacks' = IF result.tag = "Ok" THEN result.value ELSE stacks
              /\ cranePc' = PcAfter(result)
    /\ stacks_before' = stacks
    /\ applied' = applied + 1
    /\ UNCHANGED <<version, parseVars, walkVars, treeVars, monkeyVars, ropeVars, cycleVars>>

\* no action is left: Ok(the top crates)
CraneReturn ==
    /\ cranePc = "loop"
    /\ cranePc' = "returned"
    /\ craneResult' = ResultOk(Tops(stacks))
    /\ UNCHANGED <<stacks, version, crane_action, stacks_before, applied,
                   parseVars, walkVars, treeVars, monkeyVars, ropeVars, cycleVars>>

NextCrane == Accept \/ AcceptV2 \/ CraneReturn

SpecCrane == InitCrane /\ [][NextCrane]_vars

(***************************************************************************)
(* Day 5, the claims about the crane.                                      *)
(***************************************************************************)
MoveApplied == cranePc \in {"loop", "failed", "panicked"} /\ applied > 0

\* a valid move: A and B name two different existing stacks and stack A holds
\* at least N crates
ValidMove(stks, action) ==
    /\ action.from_stack \in DOMAIN stks
    /\ action.to_stack \in DOMAIN stks
    /\ action.from_stack # action.to_stack
    /\ action.number_crates <= Len(stks[action.from_stack])

\* the top crate of stack a is put on top of stack b
SingleCrateMove(stks, a, b) ==
    [stks EXCEPT ![a] = SubSeq(@, 1, Len(@) - 1),
                 ![b] = Append(@, stks[a][Len(stks[a])])]

RECURSIVE SingleCrateMoves(_, _, _, _)
SingleCrateMoves(stks, n, a, b) ==
    IF n = 0 THEN stks ELSE SingleCrateMoves(SingleCrateMove(stks, a, b), n - 1, a, b)

\* how many times crate c lies in the stacks
CrateCount(stks, c) ==
    Cardinality({ij \in UNION {{<<k, j>> : j \in DOMAIN stks[k]} : k \in DOMAIN stks} :
                    stks[ij[1]][ij[2]] = c})

\* C22: for a valid move of N crates from stack A to another stack B, accept
\* returns the stacks that N moves of a single crate give, accept_v2 returns
\* stack A without its N top crates and stack B followed by these crates in
\* the order they had on A, and both leave every other stack as it was and
\* keep the number of crates of every kind.
C22_MovesOfNCrates ==
    (MoveApplied /\ ValidMove(stacks_before, crane_action)) =>
        LET n == crane_action.number_crates
            a == crane_action.from_stack
            b == crane_action.to_stack
            kept == Len(stacks_before[a]) - n
            moved == SubSeq(stacks_before[a], kept + 1, Len(stacks_before[a]))
        IN  /\ craneResult.tag = "Ok"
            /\ stacks = craneResult.value
            /\ version = "accept" => stacks = SingleCrateMoves(stacks_before, n, a, b)
            /\ version = "accept_v2" =>
                  /\ stacks[a] = SubSeq(stacks_before[a], 1, kept)
                  /\ stacks[b] = stacks_before[b] \o moved
            /\ DOMAIN stacks = DOMAIN stacks_before
            /\ \A k \in DOMAIN stacks : k \notin {a, b} => stacks[k] = stacks_before[k]
            /\ \A c \in CrateChoices : CrateCount(stacks, c) = CrateCount(stacks_before, c)

\* accept has moved three crates that are not all the same onto a stack that
\* was not empty, beside a third stack
C22_Witness ==
    /\ MoveApplied /\ ValidMove(stacks_before, crane_action)
    /\ version = "accept"
    /\ crane_action.number_crates = 3
    /\ Len(stacks) = 3
    /\ stacks_before[crane_action.to_stack] # <<>>
    /\ stacks # accept_v2(stacks_before, crane_action).value

\* C27: whatever numbers N, A and B an action holds, accept and accept_v2
\* return Ok(new stacks), or Err(InvalidStackReference) when A or B names no
\* existing stack, or Err(ImpossibleToApplyAction) when stack A holds fewer
\* than N crates; they never panic, and after an Err the stacks are as before.
C27_InvalidMovesAreTypedErrors ==
    MoveApplied =>
        /\ cranePc # "panicked"
        /\ craneResult.tag \in {"Ok", "Err"}
        /\ craneResult.tag = "Err" =>
              /\ stacks = stacks_before
              /\ \/ /\ craneResult.error.variant = "InvalidStackReference"
                    /\ \/ crane_action.from_stack \notin DOMAIN stacks_before
                       \/ crane_action.to_stack \notin DOMAIN stacks_before
                 \/ /\ craneResult.error.variant = "ImpossibleToApplyAction"
                    /\ crane_action.from_stack \in DOMAIN stacks_before
                    /\ Len(stacks_before[crane_action.from_stack])
                          < crane_action.number_crates

(***************************************************************************)
(* Day 12, the claims about the frontiers and the path of walk.            *)
(***************************************************************************)
WalkStarted == walkPc \in {"loop", "done"} /\ start.some

\* C23: the start position is never inserted into visited; the positions of
\* two different frontiers are never the same; visited holds exactly the
\* positions admitted to a frontier.  In every step a position that is in
\* visited stays there with its predecessor, and a position that enters
\* new_current was in no frontier and not in visited before, and its
\* predecessor is the position the for loop took, from which neighbour_filter
\* admits it.
C23_FirstVisitWins ==
    /\ [](WalkStarted =>
            /\ start.pos \notin DOMAIN visited
            /\ \A i, j \in DOMAIN frontiers :
                  i # j => frontiers[i] \cap frontiers[j] = {}
            /\ frontiers[1] = {start.pos}
            /\ DOMAIN visited = UNION {frontiers[k] : k \in 2..Len(frontiers)})
    /\ [][walkPc = "loop" =>
            /\ \A p \in DOMAIN visited : p \in DOMAIN visited' /\ visited'[p] = visited[p]
            /\ DOMAIN visited' \ DOMAIN visited = new_current' \ new_current
            /\ \A p \in new_current' \ new_current :
                  /\ p \notin UNION Range(frontiers)
                  /\ visited'[p] \in current \ current'
                  /\ neighbour_filter(filters, At(topology, visited'[p]),
                                      At(topology, p))]_vars

\* a third frontier is being filled, and a position of an earlier frontier is
\* next to a position that the for loop has taken from the second one and
\* that neighbour_filter lets step back to it
C23_Witness ==
    /\ WalkStarted
    /\ Len(frontiers) = 3
    /\ frontiers[3] # {}
    /\ \E p \in frontiers[2] \ current : \E q \in frontiers[1] \cup frontiers[2] :
          StepAllowed(topology, filters, p, q)

\* C24: a path walk returns begins at the start position, ends at a cell
\* that satisfies termination, holds no position twice, and every position
\* is in bounds, next to its predecessor in one of the four directions, and
\* admitted from it by neighbour_filter.
C24_ReturnedPathIsValid ==
    (walkPc = "done" /\ walkResult.tag = "Ok") =>
        LET path == walkResult.value
        IN  /\ path[1] = start.pos
            /\ termination(filters, At(topology, path[Len(path)]))
            /\ \A i, j \in DOMAIN path : i # j => path[i] # path[j]
            /\ \A k \in DOMAIN path : path[k] \in Positions(topology)
            /\ \A k \in 1..(Len(path) - 1) :
                  /\ Adjacent(path[k], path[k + 1])
                  /\ neighbour_filter(filters, At(topology, path[k]),
                                      At(topology, path[k + 1]))

\* a returned path of two steps that turns a corner
C24_Witness ==
    /\ walkPc = "done" /\ walkResult.tag = "Ok"
    /\ Len(walkResult.value) = 3
    /\ walkResult.value[1].x # walkResult.value[3].x
    /\ walkResult.value[1].y # walkResult.value[3].y

\* what walk returns without the positions of the path: Ok with the number
\* of steps, or Err with its variant
Outcome(tag, variant, steps) == [tag |-> tag, variant |-> variant, steps |-> steps]

ObservedOutcome ==
    IF walkResult.tag = "Ok" THEN Outcome("Ok", "", Len(walkResult.value) - 1)
    ELSE Outcome("Err", walkResult.error.variant, 0)

\* the outcome by levels: level k + 1 holds the positions outside the earlier
\* levels that a position of level k steps to
RECURSIVE LevelOutcome(_, _, _, _, _)
LevelOutcome(t, f, seen, level, k) ==
    LET next == {p \in Positions(t) \ seen : \E q \in level : StepAllowed(t, f, q, p)}
    IN  IF Goals(t, f, next) # {} THEN Outcome("Ok", "", k + 1)
        ELSE IF next = {} THEN Outcome("Err", "NoPathFound", 0)
        ELSE LevelOutcome(t, f, seen \cup next, next, k + 1)

ExpectedOutcome(t, f) ==
    IF StartCandidates(t, f) = {} THEN Outcome("Err", "NoStartFound", 0)
    ELSE LevelOutcome(t, f, {Find(t, f).pos}, {Find(t, f).pos}, 0)

\* C30: whatever order the frontiers are iterated in, walk returns the
\* outcome that the grid and the predicates determine: the same Ok or Err
\* and, when Ok, a path of the same number of steps.
C30_OutcomeDoesNotDependOnTheOrder ==
    walkPc = "done" => ObservedOutcome = ExpectedOutcome(topology, filters)

\* a returned path whose last position could have been reached from another
\* position of the frontier before it
C30_Witness ==
    /\ walkPc = "done" /\ walkResult.tag = "Ok"
    /\ LET path == walkResult.value
           end == path[Len(path)]
       IN  /\ Len(path) >= 3
           /\ \E q \in frontiers[Len(frontiers) - 1] :
                 /\ q # visited[end]
                 /\ StepAllowed(topology, filters, q, end)

(***************************************************************************)
(* Day 11, the claim about the number of items.                            *)
(***************************************************************************)
\* C29: before every turn and after the loop the queues of the monkeys hold
\* together as many items as read_input parsed, and inside a turn the queues
\* and the items the turn has yet to inspect do: no item is created,
\* duplicated or lost.
C29_ItemsAreConserved ==
    /\ loopPc \in {"turn", "done", "returned"} => ItemCount(monkeys) = starting_items
    /\ loopPc = "items" => ItemCount(monkeys) + Len(held) = starting_items

\* the second round begins, and a monkey holds more items than any monkey
\* started with
C29_Witness ==
    /\ loopPc = "turn" /\ round = 1 /\ m = 0
    /\ starting_items >= 4
    /\ \E k \in DOMAIN monkeys : Len(monkeys[k].items) >= 3

(***************************************************************************)
(* Day 11, run_loop on the monkeys of texts read_input accepts whose       *)
(* numbers nothing has checked: Test::parse reads `divisible by` with      *)
(* complete::u64 and the two targets with complete::u32, so monkey 0 is    *)
(* given a divisor of 0 or 2 and every pair of targets in 0..3, 3 being    *)
(* the index of no monkey.                                                 *)
(***************************************************************************)
UncheckedTests ==
    [divisible_by : {0, 2}, if_true_send_to : 0..3, if_false_send_to : 0..3]

UncheckedMonkeys ==
    {[inspected |-> 0, index |-> 0, items |-> its,
      operation |-> OperationAdd(VarOld, VarNum(3)), test |-> tst] :
        its \in ItemChoices, tst \in UncheckedTests}

InitUnchecked ==
    /\ monkeys \in {<<a, b, c>> : a \in UncheckedMonkeys, b \in AddingMonkeys(1),
                                  c \in AddingMonkeys(2)}
    /\ \E call \in {RunChallenge1, RunChallenge2} :
          /\ iterations = Min({call.iterations, MaxRounds})
          /\ worry_level_divider = call.worry_level_divider
    /\ round = 0 /\ m = 0 /\ held = <<>> /\ thrown = NoThrow
    /\ loopPc = "turn"
    /\ reference = RefOf(monkeys)
    /\ refHeld = <<>>
    /\ thrownAt = [k \in DOMAIN monkeys |->
                     [j \in DOMAIN monkeys[k].items |-> StartingItem]]
    /\ heldThrownAt = <<>>
    /\ answer = Pending
    /\ starting_items = ItemCount(monkeys)
    /\ IdleParse /\ IdleWalk /\ IdleTree /\ IdleRope /\ IdleCycle /\ IdleCrane

\* an iteration of `for mut item in items.iter().cloned()` that panics
InspectPanics ==
    /\ loopPc = "items"
    /\ held # <<>>
    /\ InspectAborts(monkeys, monkeys[m + 1], Head(held), worry_level_divider,
                     DivisorProduct(monkeys))
    /\ loopPc' = "panicked"
    /\ answer' = Panicked
    /\ UNCHANGED <<monkeys, iterations, worry_level_divider, round, m, held, thrown,
                   reference, refHeld, thrownAt, heldThrownAt, starting_items, parseVars,
                   walkVars, treeVars, ropeVars, cycleVars, craneVars>>

NextUnchecked == NextMonkeys \/ InspectPanics

SpecUnchecked == InitUnchecked /\ [][NextUnchecked]_vars

(***************************************************************************)
(* Day 11, the claim about the panics of run_loop.                         *)
(***************************************************************************)
RunLoopDoesNotPanic == loopPc # "panicked"

\* C25: in the monkeys of every accepted text both targets of every monkey
\* are indices of the monkey vector and the product of the divisors is not
\* zero, and run_loop never panics on them.
C25_RunLoopNeverAborts ==
    loopPc # "idle" =>
        /\ \A k \in DOMAIN monkeys :
              /\ monkeys[k].test.if_true_send_to < Len(monkeys)
              /\ monkeys[k].test.if_false_send_to < Len(monkeys)
        /\ DivisorProduct(monkeys) # 0
        /\ RunLoopDoesNotPanic

(***************************************************************************)
(* Day 9, Grid::new(n) and move_head for every knot count up to MaxKnots   *)
(* beside the two that run_challenge1 and run_challenge2 use, on every     *)
(* sequence of at most MaxMoves unit moves of the head.  The grid is moved *)
(* on its own, without the tail_pos set of the challenges.                 *)
(***************************************************************************)
KnotCounts == 0..MaxKnots \cup GridSizes

InitKnots ==
    /\ \E n \in KnotCounts : knots = GridNew(n)
    /\ tail_pos = {}
    /\ moves = 0 /\ diffs = <<>> /\ ropePc = "moving"
    /\ IdleParse /\ IdleWalk /\ IdleTree /\ IdleMonkeys /\ IdleCycle /\ IdleCrane

\* grid.move_head(direction)
CallMoveHead ==
    /\ ropePc = "moving"
    /\ moves < MaxMoves
    /\ \E direction \in Directions :
          LET r == move_head(knots, direction)
          IN  /\ knots' = r.knots
              /\ diffs' = r.diffs
              /\ ropePc' = IF r.panic THEN "panicked" ELSE "moving"
    /\ moves' = moves + 1
    /\ UNCHANGED <<tail_pos, parseVars, walkVars, treeVars, monkeyVars, cycleVars, craneVars>>

NextKnots == CallMoveHead

SpecKnots == InitKnots /\ [][NextKnots]_vars

(***************************************************************************)
(* Day 9, the claim about consecutive knots.                               *)
(***************************************************************************)
Near(p, q) == p.x - q.x \in -1..1 /\ p.y - q.y \in -1..1

\* C28: after every call of move_head, with any number of knots, every knot
\* is on or next to its predecessor (both coordinate differences in -1..1);
\* in one call every knot but the head moves by at most one cell per axis,
\* and only if its predecessor moved in that call.
C28_ConsecutiveKnotsStayNear ==
    /\ [](ropePc = "moving" =>
            \A k \in 1..(Len(knots) - 1) : Near(knots[k], knots[k + 1]))
    /\ [][(ropePc = "moving" /\ ropePc' = "moving") =>
            \A k \in 2..Len(knots) :
               /\ Near(knots'[k], knots[k])
               /\ knots'[k] # knots[k] => knots'[k - 1] # knots[k - 1]]_vars

\* with three knots, the last knot has left the origin and lies diagonally
\* behind the second while the first two knots are apart
C28_Witness ==
    /\ ropePc = "moving"
    /\ Len(knots) = 3
    /\ knots[3] # Pos(0, 0)
    /\ knots[2].x # knots[3].x /\ knots[2].y # knots[3].y
    /\ knots[1] # knots[2]

====
